---- MODULE Spec2Model ----
(***************************************************************************)
(* State-machine model of the M&A financing graph pipeline:                *)
(*   fact store  -> DealClusteringService (primary + secondary pass)       *)
(*               -> ReconciliationService (linked + unlinked pass)         *)
(* Rows are records; a NULL integer column is 0, a NULL/empty string "".   *)
(* Character strings that the code inspects by substring are sequences of  *)
(* one-character strings.                                                  *)
(***************************************************************************)
EXTENDS Integers, Sequences, FiniteSets, TLC

\* ------------------------------------------------------------------ bounds
MaxFacts == 4
MaxAlerts == 2
MaxConcFacts == 3
MaxRequests == 4
MaxManualInputs == 1
MaxTextLen == 6
MaxParticipants == 2
MaxSponsorStore == 5
MaxClock == 16
MaxRaceClock == 2
MaxSent == 5
\* SEC_RATE_LIMIT_REQUESTS, scaled down from its default of 10
RateLimitRequests == 2

\* ------------------------------------------------------- program constants
MinConfidence == 500          \* ReconciliationService.min_confidence, in 1/1000
DefaultSponsorConfidence == 50 \* `fact.confidence or 0.5`, in 1/100

PartyTypes == {"PARTY_DEFINITION", "PARTY_MENTION"}
SecondaryTypes == {"SPONSOR_MENTION", "DEAL_DATE", "ADVISOR_MENTION", "FINANCING_MENTION"}
TargetLabels == {"company", "target", "seller"}
AcquirerLabels == {"parent", "buyer", "purchaser", "acquirer", "acquiror"}
DealState == {"CANDIDATE", "OPEN", "CLOSED", "LOCKED", "NEEDS_REVIEW"}
SPONSOR_SEED_LIST == {"blackstone", "kkr", "apollo", "carlyle"}

\* ------------------------------------------------------------ role strings
S_bookrunner == <<"b","o","o","k","r","u","n","n","e","r">>
S_joint == <<"j","o","i","n","t">>
S_co_manager_h == <<"c","o","-","m","a","n","a","g","e","r">>
S_co_manager_s == <<"c","o"," ","m","a","n","a","g","e","r">>
S_underwriter == <<"u","n","d","e","r","w","r","i","t","e","r">>
S_lead == <<"l","e","a","d">>
S_senior == <<"s","e","n","i","o","r">>
S_arranger == <<"a","r","r","a","n","g","e","r">>
S_mandated == <<"m","a","n","d","a","t","e","d">>
S_admin == <<"a","d","m","i","n">>
S_agent == <<"a","g","e","n","t">>
S_syndication == <<"s","y","n","d","i","c","a","t","i","o","n">>
S_joint_bookrunner == <<"j","o","i","n","t","_","b","o","o","k","r","u","n","n","e","r">>
S_co_manager == <<"c","o","_","m","a","n","a","g","e","r">>
S_lead_underwriter == <<"l","e","a","d","_","u","n","d","e","r","w","r","i","t","e","r">>
S_lead_arranger == <<"l","e","a","d","_","a","r","r","a","n","g","e","r">>
S_joint_lead_arranger == <<"j","o","i","n","t","_","l","e","a","d","_","a","r","r","a","n","g","e","r">>
S_admin_agent == <<"a","d","m","i","n","_","a","g","e","n","t">>
S_syndication_agent == <<"s","y","n","d","i","c","a","t","i","o","n","_","a","g","e","n","t">>
S_other == <<"o","t","h","e","r">>
S_lead_manager == <<"l","e","a","d","_","m","a","n","a","g","e","r">>
S_raw_jb == <<"j","o","i","n","t"," ","b","o","o","k","r","u","n","n","e","r">>
S_raw_jla == <<" ","J","o","i","n","t"," ","L","e","a","d"," ","A","r","r","a","n","g","e","r">>

\* ---------------------------------------------------------------- state
VARIABLES
    facts,        \* atomic_facts table: sequence of rows, row id = index
    deals,        \* deals table: function deal id -> row
    events,       \* financing_events table: function event id -> row
    alerts,       \* processing_alerts table: sequence of rows
    nextDealId,   \* deals.id sequence
    nextEventId,  \* financing_events.id sequence
    runs,         \* the open session of each concurrently running clusterer
    filings,      \* filings table: function filing id -> row
    exhibits,     \* exhibits table: function exhibit id -> row
    manual_inputs,\* manual_inputs table: sequence of rows
    task,         \* the ingestion task: position, session, what it holds
    requests,     \* what the registry was asked by the task, with the outcome
    clock,        \* time.time(), in ticks
    request_times,\* EdgarClient._request_times of the shared client
    sent,         \* the times at which HTTP requests left the client
    cache,        \* EdgarClient._cache: the urls with a cached response
    threads,      \* the threads inside EdgarClient.fetch
    text,         \* the string handed to normalize_text
    normalized,   \* what normalize_text returned for it, <<"none">> before
    banks,        \* banks table: function bank id -> row
    bank_cache,   \* BankResolver._cache of the resolver instance
    link_returned,  \* the last call on the resolver and what it returned
    merge_returned  \* how the last call of merge_deals ended, "none" before

\* the ingestion side and the fetcher side of the state
ingestVars == <<filings, exhibits, manual_inputs, task, requests>>
fetchVars == <<clock, request_times, sent, cache, threads>>
textVars == <<text, normalized>>
bankVars == <<banks, bank_cache, link_returned>>
helperVars == <<textVars, bankVars, merge_returned>>

vars == <<facts, deals, events, alerts, nextDealId, nextEventId, runs,
          ingestVars, fetchVars, helperVars>>

\* ------------------------------------------------------------- documents
\* filing and exhibit ids are small integers; exhibit 0 is "no exhibit"
\* names that can occur in party / sponsor payloads and in evidence text
Names == {"alpha", "target", "omega", "blackstone"}

\* evidence text, as rapidfuzz partial_ratio(name, text) for each name;
\* 100 exactly when the name is a substring of the text.  The field
\* indicators lists which of the classifier's pattern groups ("ig", "hy",
\* "tlb", "bridge", "rcf") match the lowercased text.
NoEvidence == [n \in Names |-> 0]
Mentioning(S) == [n \in Names |-> IF n \in S THEN 100 ELSE 0]

NoFields == [role |-> "", name |-> "", cik |-> "", confidence |-> 0,
             sponsor |-> "", date |-> "", instrument |-> "",
             instrument_subtype |-> "", amount_usd |-> 0,
             participants |-> <<>>, evidence |-> NoEvidence, indicators |-> {}]

\* rows as FactExtractor emits them (deal_id unset)
PartyFact(ftype, filing, exhibit, role, name, cik) ==
    [NoFields EXCEPT !.role = role, !.name = name, !.cik = cik, !.confidence = 90]
        @@ [fact_type |-> ftype, filing_id |-> filing, exhibit_id |-> exhibit]

SponsorFact(filing, exhibit, sponsor, conf) ==
    [NoFields EXCEPT !.sponsor = sponsor, !.confidence = conf]
        @@ [fact_type |-> "SPONSOR_MENTION", filing_id |-> filing, exhibit_id |-> exhibit]

DateFact(filing, exhibit, date) ==
    [NoFields EXCEPT !.date = date, !.confidence = 95]
        @@ [fact_type |-> "DEAL_DATE", filing_id |-> filing, exhibit_id |-> exhibit]

FinancingFact(filing, exhibit, instrument, subtype, amount, participants, evidence, ind) ==
    [NoFields EXCEPT !.instrument = instrument, !.instrument_subtype = subtype,
                     !.amount_usd = amount, !.participants = participants,
                     !.evidence = evidence, !.indicators = ind, !.confidence = 90]
        @@ [fact_type |-> "FINANCING_MENTION", filing_id |-> filing, exhibit_id |-> exhibit]

\* the facts that extraction can add to the store
Catalogue ==
    { PartyFact("PARTY_DEFINITION", 1, 1, "parent", "alpha", ""),
      PartyFact("PARTY_DEFINITION", 1, 1, "parent", "alpha", "0001"),
      PartyFact("PARTY_DEFINITION", 1, 1, "company", "target", ""),
      PartyFact("PARTY_DEFINITION", 1, 1, "target", "target", ""),
      PartyFact("PARTY_DEFINITION", 1, 1, "company", "omega", ""),
      SponsorFact(1, 2, "blackstone", 95),
      DateFact(1, 1, "2024-01-15"),
      FinancingFact(1, 0, "bond", "senior notes", 1000000,
                    <<S_lead_manager, S_raw_jla, <<>> >>,
                    Mentioning({"target"}), {"hy"}) }

\* ------------------------------------------------------------- helpers
\* the processes that run cluster_facts side by side
Runs == {"A", "B"}

\* the threads that call the shared client
Threads == {"t1", "t2"}

\* an ingestion task that has not been started
IdleTask ==
    [pc |-> "idle", todo |-> <<>>, filing |-> 0, has_text |-> FALSE,
     ex_todo |-> <<>>, ex_new |-> <<>>, result |-> "none"]

\* a thread that is not inside fetch
IdleThread ==
    [pc |-> "idle", url |-> "", attempt |-> 0, now |-> 0, wake |-> 0,
     result |-> "none"]

\* nothing ingested, client just constructed
InitIngestFetch ==
    /\ filings = <<>>
    /\ exhibits = <<>>
    /\ manual_inputs = <<>>
    /\ task = IdleTask
    /\ requests = <<>>
    /\ clock = 0
    /\ request_times = <<>>
    /\ sent = <<>>
    /\ cache = {}
    /\ threads = [t \in Threads |-> IdleThread]

\* no call was made on the resolver yet
NoCall == [call |-> "none", name |-> "", bank_id |-> 0, raised |-> ""]

\* nothing normalized, no bank known, resolver just constructed
InitHelpers ==
    /\ text = <<>>
    /\ normalized = <<"none">>
    /\ banks = <<>>
    /\ bank_cache = <<>>
    /\ link_returned = NoCall
    /\ merge_returned = "none"

\* a session with nothing loaded and nothing pending
ClosedSession ==
    [pc |-> "idle", todo |-> <<>>, mem |-> <<>>, dirty |-> {}, pend |-> <<>>,
     new_alerts |-> <<>>, wait |-> <<>>]

Range(s) == {s[i] : i \in DOMAIN s}

\* result rows of a query: the ids of S in primary-key order
RECURSIVE Rows(_)
Rows(S) ==
    IF S = {} THEN <<>>
    ELSE LET m == CHOOSE x \in S : \A y \in S : x <= y
         IN  <<m>> \o Rows(S \ {m})

TypeOK ==
    /\ Len(facts) <= MaxFacts
    /\ \A i \in DOMAIN facts : facts[i].deal_id \in Nat
    /\ \A d \in DOMAIN deals : deals[d].state \in DealState
    /\ nextDealId \in Nat /\ nextEventId \in Nat

Init ==
    /\ facts = <<>>
    /\ deals = <<>>
    /\ events = <<>>
    /\ alerts = <<>>
    /\ nextDealId = 1
    /\ nextEventId = 1
    /\ runs = [r \in Runs |-> ClosedSession]
    /\ InitIngestFetch
    /\ InitHelpers

\* the extracted fact c is not in the store yet
NotIngested(f, c) ==
    \A i \in DOMAIN f : [k \in DOMAIN c |-> f[i][k]] # c

\* ingest: extraction results are added to the store with deal_id NULL
IngestFact ==
    /\ Len(facts) < MaxFacts
    /\ \E c \in Catalogue :
        /\ NotIngested(facts, c)
        /\ facts' = Append(facts, c @@ [deal_id |-> 0])
    /\ UNCHANGED <<runs, deals, events, alerts, nextDealId, nextEventId, ingestVars, fetchVars, helperVars>>

\* ------------------------------------------------- DealClusteringService
\* The session of one run: st.f facts, st.d deals, st.a alerts, st.n next deal id.

build_deal_key(acquirer_cik, acquirer_name, target_cik, target_name) ==
    IF acquirer_cik # "" /\ target_cik # ""
    THEN <<"cik", acquirer_cik, "cik", target_cik>>
    ELSE IF acquirer_cik # "" /\ target_name # ""
    THEN <<"cik", acquirer_cik, "name", target_name>>
    ELSE IF acquirer_name # "" /\ target_name # ""
    THEN <<"name", acquirer_name, "name", target_name>>
    ELSE <<>>

\* ids of the other party facts of the same exhibit (of the same filing when
\* the fact has no exhibit) whose role label is in role_labels
find_related_party_facts(f, i, role_labels) ==
    IF f[i].exhibit_id # 0
    THEN Rows({j \in DOMAIN f : /\ f[j].fact_type \in PartyTypes
                                        /\ j # i
                                        /\ f[j].exhibit_id = f[i].exhibit_id
                                        /\ f[j].role \in role_labels})
    ELSE IF f[i].filing_id # 0
    THEN Rows({j \in DOMAIN f : /\ f[j].fact_type \in PartyTypes
                                        /\ j # i
                                        /\ f[j].filing_id = f[i].filing_id
                                        /\ f[j].role \in role_labels})
    ELSE <<>>

\* the deal row with this key, 0 when there is none
\* variant: the lookup by deal_key never finds the existing deal
DealWithKey_NeverFound(d, key) == 0

DealWithKey(d, key) ==
    IF \E k \in DOMAIN d : d[k].deal_key = key
    THEN CHOOSE k \in DOMAIN d : d[k].deal_key = key
    ELSE 0

\* `for x in others: if x.deal_id is None: x.deal_id = deal`
AttachIfNull(f, others, deal) ==
    [j \in DOMAIN f |-> IF j \in Range(others) /\ f[j].deal_id = 0
                        THEN [f[j] EXCEPT !.deal_id = deal] ELSE f[j]]

NewDeal(id, state, apl, tpl, key) ==
    [id |-> id, state |-> state, deal_key |-> key,
     acquirer_cik |-> apl.cik, acquirer_name_normalized |-> apl.name,
     target_cik |-> tpl.cik, target_name_normalized |-> tpl.name,
     agreement_date |-> "", is_sponsor_backed |-> "NULL",
     sponsor_name_normalized |-> "", sponsor_confidence |-> 0,
     sponsor_fact |-> 0, unresolved_sponsor_entity |-> FALSE,
     market_tag |-> "", underwriting_fee_estimated |-> 0]

LowConfidenceMatchAlert(deal, filing) ==
    [alert_type |-> "LOW_CONFIDENCE_MATCH", deal_id |-> deal, filing_id |-> filing,
     is_resolved |-> FALSE, resolution_notes |-> <<>>]

\* state given to a deal created from these two payloads
\* variant: the acquirer CIK is not consulted when the state is chosen
NewDealState_AlwaysCandidate(acquirer_cik) == "CANDIDATE"

NewDealState(acquirer_cik) ==
    IF acquirer_cik = "" THEN "NEEDS_REVIEW" ELSE "CANDIDATE"

handle_target_fact(st, i) ==
    LET f == st.f
        acquirer_facts == find_related_party_facts(f, i, AcquirerLabels)
    IN  IF acquirer_facts = <<>> THEN st
        ELSE
        LET ap == f[acquirer_facts[1]]
            deal_key == build_deal_key(ap.cik, ap.name, f[i].cik, f[i].name)
            existing == DealWithKey(st.d, deal_key)
        IN  IF deal_key = <<>> THEN st
            ELSE IF existing # 0
            THEN IF st.d[existing].state = "LOCKED"
                 THEN [st EXCEPT !.a = Append(@, LowConfidenceMatchAlert(existing, f[i].filing_id))]
                 ELSE [st EXCEPT !.f = AttachIfNull([f EXCEPT ![i].deal_id = existing],
                                                    acquirer_facts, existing)]
            ELSE [st EXCEPT
                    !.d = st.n :> NewDeal(st.n, NewDealState(ap.cik), ap, f[i], deal_key) @@ @,
                    !.n = @ + 1,
                    !.f = AttachIfNull([f EXCEPT ![i].deal_id = st.n], acquirer_facts, st.n)]

handle_acquirer_fact(st, i) ==
    LET f == st.f
        target_facts == find_related_party_facts(f, i, TargetLabels)
    IN  IF target_facts = <<>> THEN st
        ELSE
        LET tp == f[target_facts[1]]
            deal_key == build_deal_key(f[i].cik, f[i].name, tp.cik, tp.name)
            existing == DealWithKey(st.d, deal_key)
        IN  IF deal_key = <<>> THEN st
            ELSE IF existing # 0 /\ st.d[existing].state # "LOCKED"
            THEN [st EXCEPT !.f = AttachIfNull([f EXCEPT ![i].deal_id = existing],
                                               target_facts, existing)]
            ELSE st

cluster_fact(st, i) ==
    IF st.f[i].name = "" THEN st
    ELSE IF st.f[i].role \in TargetLabels THEN handle_target_fact(st, i)
    ELSE IF st.f[i].role \in AcquirerLabels THEN handle_acquirer_fact(st, i)
    ELSE st

\* `for fact in unclustered: self._cluster_fact(fact)`
RECURSIVE PrimaryPass(_, _)
PrimaryPass(st, unclustered) ==
    IF unclustered = <<>> THEN st
    ELSE PrimaryPass(cluster_fact(st, Head(unclustered)), Tail(unclustered))

\* deal_id of the first attached party fact of the fact's exhibit (filing), else 0
find_deal_for_fact(f, i) ==
    LET found == IF f[i].exhibit_id # 0
                 THEN Rows({j \in DOMAIN f : /\ f[j].deal_id # 0
                                                     /\ f[j].fact_type \in PartyTypes
                                                     /\ f[j].exhibit_id = f[i].exhibit_id})
                 ELSE IF f[i].filing_id # 0
                 THEN Rows({j \in DOMAIN f : /\ f[j].deal_id # 0
                                                     /\ f[j].fact_type \in PartyTypes
                                                     /\ f[j].filing_id = f[i].filing_id})
                 ELSE <<>>
    IN  IF found = <<>> THEN 0 ELSE f[found[1]].deal_id

update_deal_sponsor(d, deal_id, fact, i) ==
    IF deal_id \notin DOMAIN d THEN d
    ELSE
    LET deal == d[deal_id]
        confidence == IF fact.confidence = 0 THEN DefaultSponsorConfidence
                      ELSE fact.confidence
    IN  IF deal.sponsor_name_normalized = "" \/ deal.sponsor_confidence < confidence
        THEN [d EXCEPT ![deal_id] =
                [deal EXCEPT !.sponsor_name_normalized = fact.sponsor,
                             !.sponsor_confidence = confidence,
                             !.is_sponsor_backed = "TRUE",
                             !.sponsor_fact = i,
                             !.unresolved_sponsor_entity =
                                 IF fact.sponsor # "" /\ fact.sponsor \notin SPONSOR_SEED_LIST
                                 THEN TRUE ELSE @]]
        ELSE d

update_deal_date(d, deal_id, fact) ==
    IF deal_id \notin DOMAIN d \/ fact.date = "" THEN d
    ELSE IF d[deal_id].agreement_date = ""
    THEN [d EXCEPT ![deal_id].agreement_date = fact.date]
    ELSE d

attach_one_secondary(st, i) ==
    LET deal_id == find_deal_for_fact(st.f, i)
    IN  IF deal_id = 0 THEN st
        ELSE [st EXCEPT
                !.f = [@ EXCEPT ![i].deal_id = deal_id],
                !.d = IF st.f[i].fact_type = "SPONSOR_MENTION"
                      THEN update_deal_sponsor(@, deal_id, st.f[i], i)
                      ELSE IF st.f[i].fact_type = "DEAL_DATE"
                      THEN update_deal_date(@, deal_id, st.f[i])
                      ELSE @]

RECURSIVE attach_secondary_facts(_, _)
attach_secondary_facts(st, unclustered) ==
    IF unclustered = <<>> THEN st
    ELSE attach_secondary_facts(attach_one_secondary(st, Head(unclustered)),
                                Tail(unclustered))

UnclusteredOf(f, types) ==
    {i \in DOMAIN f : f[i].deal_id = 0 /\ f[i].fact_type \in types}

\* the session after one run (primary pass, commit, secondary pass) over the
\* store <<f, d, a, n>>
cluster_unclustered_facts(f, d, a, n) ==
    LET st0 == [f |-> f, d |-> d, a |-> a, n |-> n]
        st1 == PrimaryPass(st0, Rows(UnclusteredOf(f, PartyTypes)))
    IN  attach_secondary_facts(st1, Rows(UnclusteredOf(st1.f, SecondaryTypes)))

cluster_facts == cluster_unclustered_facts(facts, deals, alerts, nextDealId)

ClusterRun ==
    LET st == cluster_facts
    IN  /\ Len(st.a) <= MaxAlerts
        /\ facts' = st.f
        /\ deals' = st.d
        /\ alerts' = st.a
        /\ nextDealId' = st.n
        /\ UNCHANGED <<runs, events, nextEventId, ingestVars, fetchVars, helperVars>>

\* sponsor mentions as extract_sponsors scores them: 0.95 for a name of the
\* seed list, 0.85 for a name found by the affiliation pattern; here they
\* are stored for the exhibit that holds the party facts
SponsorMentions ==
    { SponsorFact(1, 1, "blackstone", 95), SponsorFact(1, 1, "kkr", 95),
      SponsorFact(1, 1, "newco capital", 85), SponsorFact(1, 1, "oldco partners", 85) }

\* the parties of one agreement are stored, no sponsor yet
InitSponsor ==
    /\ facts = << PartyFact("PARTY_DEFINITION", 1, 1, "parent", "alpha", "0001")
                      @@ [deal_id |-> 0],
                  PartyFact("PARTY_DEFINITION", 1, 1, "company", "target", "")
                      @@ [deal_id |-> 0] >>
    /\ deals = <<>>
    /\ events = <<>>
    /\ alerts = <<>>
    /\ nextDealId = 1
    /\ nextEventId = 1
    /\ runs = [r \in Runs |-> ClosedSession]
    /\ InitIngestFetch
    /\ InitHelpers

IngestSponsorMention ==
    /\ Len(facts) < MaxSponsorStore
    /\ \E c \in SponsorMentions :
        /\ NotIngested(facts, c)
        /\ facts' = Append(facts, c @@ [deal_id |-> 0])
    /\ UNCHANGED <<runs, deals, events, alerts, nextDealId, nextEventId,
                   ingestVars, fetchVars, helperVars>>

NextSponsor == IngestSponsorMention \/ ClusterRun

SpecSponsor == InitSponsor /\ [][NextSponsor]_vars

\* ------------------------------------------------- ReconciliationService
\* str.lower() on one character
Lower(c) ==
    CASE c = "A" -> "a" [] c = "J" -> "j" [] c = "L" -> "l"
      [] OTHER -> c

\* str.strip()
RECURSIVE StripLeft(_)
StripLeft(s) == IF s # <<>> /\ Head(s) = " " THEN StripLeft(Tail(s)) ELSE s
RECURSIVE StripRight(_)
StripRight(s) ==
    IF s # <<>> /\ s[Len(s)] = " " THEN StripRight(SubSeq(s, 1, Len(s) - 1)) ELSE s
Strip(s) == StripRight(StripLeft(s))

\* `sub in s`
Contains(s, sub) ==
    \E k \in 0..(Len(s) - Len(sub)) : SubSeq(s, k + 1, k + Len(sub)) = sub

normalize_role(raw) ==
    LET role == [k \in DOMAIN Strip(raw) |-> Lower(Strip(raw)[k])]
    IN  IF Contains(role, S_bookrunner)
        THEN IF Contains(role, S_joint) THEN S_joint_bookrunner ELSE S_bookrunner
        ELSE IF Contains(role, S_co_manager_h) \/ Contains(role, S_co_manager_s)
        THEN S_co_manager
        ELSE IF Contains(role, S_underwriter)
        THEN IF Contains(role, S_lead) \/ Contains(role, S_senior)
             THEN S_lead_underwriter ELSE S_underwriter
        ELSE IF Contains(role, S_arranger)
        THEN IF Contains(role, S_joint) /\ Contains(role, S_lead) THEN S_joint_lead_arranger
             ELSE IF Contains(role, S_lead) \/ Contains(role, S_mandated) THEN S_lead_arranger
             ELSE S_arranger
        ELSE IF Contains(role, S_admin) /\ Contains(role, S_agent) THEN S_admin_agent
        ELSE IF Contains(role, S_syndication) THEN S_syndication_agent
        ELSE IF Contains(role, S_agent) THEN S_agent
        ELSE role

\* FinancingEvent row (with its participants) built from fact i
create_financing_event(id, fact, i, confidence) ==
    [id |-> id, deal_id |-> fact.deal_id,
     instrument_family |-> IF fact.instrument = "" THEN "unknown" ELSE fact.instrument,
     instrument_type |-> fact.instrument_subtype,
     amount_usd |-> fact.amount_usd,
     estimated_fee_usd |-> 0,
     source_exhibit_id |-> fact.exhibit_id,
     source_fact_ids |-> <<i>>,
     reconciliation_confidence |-> confidence,
     market_tag |-> "",
     participants |-> [k \in DOMAIN fact.participants |->
                          [role |-> fact.participants[k],
                           role_normalized |-> normalize_role(fact.participants[k]),
                           role_weight |-> 0, estimated_fee_usd |-> 0]]]

\* is there an event of the fact's deal that lists fact i as a source
\* variant: the source_fact_ids of the deal's events are not consulted
find_existing_event_NoLookup(e, f, i) == FALSE

find_existing_event(e, f, i) ==
    /\ f[i].deal_id # 0
    /\ \E k \in DOMAIN e : /\ e[k].deal_id = f[i].deal_id
                           /\ i \in Range(e[k].source_fact_ids)

\* The session of one run: st.f facts, st.d deals, st.e events, st.n next
\* event id, st.low_confidence_skipped the counter of the unlinked pass.
RECURSIVE LinkedPass(_, _)
LinkedPass(st, financing_facts) ==
    IF financing_facts = <<>> THEN st
    ELSE LET i == Head(financing_facts)
         IN  IF find_existing_event(st.e, st.f, i)
             THEN LinkedPass(st, Tail(financing_facts))
             ELSE LinkedPass(
                    [st EXCEPT !.e = st.n :> create_financing_event(st.n, st.f[i], i, 1000) @@ @,
                               !.n = @ + 1],
                    Tail(financing_facts))

\* confidence of deal for the evidence, in 1/1000, capped at 1.0
score_deal_match(deal, evidence) ==
    LET target == IF deal.target_name_normalized = "" THEN 0
                  ELSE IF evidence[deal.target_name_normalized] = 100 THEN 500
                  ELSE IF evidence[deal.target_name_normalized] > 85
                  THEN 4 * evidence[deal.target_name_normalized] ELSE 0
        sponsor == IF deal.sponsor_name_normalized = "" THEN 0
                   ELSE IF evidence[deal.sponsor_name_normalized] = 100 THEN 200
                   ELSE IF evidence[deal.sponsor_name_normalized] > 80
                   THEN evidence[deal.sponsor_name_normalized] ELSE 0
        acquirer == IF deal.acquirer_name_normalized = "" THEN 0
                    ELSE IF evidence[deal.acquirer_name_normalized] = 100 THEN 300
                    ELSE IF evidence[deal.acquirer_name_normalized] > 85
                    THEN 2 * evidence[deal.acquirer_name_normalized] ELSE 0
        confidence == target + sponsor + acquirer
    IN  IF confidence > 1000 THEN 1000 ELSE confidence

\* <<deal id, confidence>> of the first best-scoring CANDIDATE/OPEN deal,
\* <<0, 0>> when no deal scores at least min_confidence
\* variant: the candidates are not filtered by state
find_best_deal_match_AnyState(d, fact) ==
    LET score(k) == score_deal_match(d[k], fact.evidence)
        best == {k \in DOMAIN d : /\ score(k) > 0
                                  /\ \A j \in DOMAIN d : score(j) <= score(k)}
    IN  IF best = {} THEN <<0, 0>>
        ELSE LET k == CHOOSE x \in best : \A y \in best : x <= y
             IN  IF score(k) >= MinConfidence THEN <<k, score(k)>> ELSE <<0, 0>>

find_best_deal_match(d, fact) ==
    LET cand == {k \in DOMAIN d : d[k].state \in {"CANDIDATE", "OPEN"}}
        score(k) == score_deal_match(d[k], fact.evidence)
        best == {k \in cand : /\ score(k) > 0
                              /\ \A j \in cand : score(j) <= score(k)}
    IN  IF best = {} THEN <<0, 0>>
        ELSE LET k == CHOOSE x \in best : \A y \in best : x <= y
             IN  IF score(k) >= MinConfidence THEN <<k, score(k)>> ELSE <<0, 0>>

RECURSIVE UnlinkedPass(_, _)
UnlinkedPass(st, unlinked) ==
    IF unlinked = <<>> THEN st
    ELSE LET i == Head(unlinked)
             match == find_best_deal_match(st.d, st.f[i])
         IN  IF match[1] # 0 /\ match[2] >= MinConfidence
             THEN LET linked == [st.f[i] EXCEPT !.deal_id = match[1]]
                  IN  UnlinkedPass(
                        [st EXCEPT !.f = [@ EXCEPT ![i] = linked],
                                   !.e = st.n :> create_financing_event(st.n, linked, i, match[2]) @@ @,
                                   !.n = @ + 1],
                        Tail(unlinked))
             ELSE UnlinkedPass([st EXCEPT !.low_confidence_skipped = @ + 1],
                               Tail(unlinked))

\* the unlinked financing facts of the store, as the query returns them
UnlinkedFinancing(f) ==
    Rows({i \in DOMAIN f : f[i].fact_type = "FINANCING_MENTION" /\ f[i].deal_id = 0})

\* reconcile_financing over the store <<f, d, e, n>>: the linked pass, then
\* the unlinked pass
reconcile_store(f, d, e, n) ==
    LET st0 == [f |-> f, d |-> d, e |-> e, n |-> n, low_confidence_skipped |-> 0]
        st1 == LinkedPass(st0, Rows({i \in DOMAIN f :
                                        /\ f[i].fact_type = "FINANCING_MENTION"
                                        /\ f[i].deal_id # 0}))
    IN  UnlinkedPass(st1, UnlinkedFinancing(f))

reconcile_financing == reconcile_store(facts, deals, events, nextEventId)

ReconcileRun ==
    LET st == reconcile_financing
    IN  /\ facts' = st.f
        /\ events' = st.e
        /\ nextEventId' = st.n
        /\ UNCHANGED <<runs, deals, alerts, nextDealId, ingestVars, fetchVars, helperVars>>

\* ------------------------------------------------------------ merge_deals
DealMergeAlert(source, target_deal_id) ==
    [alert_type |-> "DEAL_MERGE_CANDIDATE", deal_id |-> target_deal_id, filing_id |-> 0,
     is_resolved |-> TRUE, resolution_notes |-> source.deal_key]

\* the foreign key of processing_alerts.deal_id is not enforced
MergeViolatesForeignKey_Unenforced(source_deal_id, target_deal_id) == FALSE

\* deleting the source row violates a foreign key when an alert row refers
\* to it (the new audit alert refers to the target); the commit then fails,
\* the transaction is rolled back and the store is as before
MergeViolatesForeignKey(source_deal_id, target_deal_id) ==
    \/ source_deal_id = target_deal_id
    \/ \E k \in DOMAIN alerts : alerts[k].deal_id = source_deal_id

\* the store after the two updates, the audit alert and the delete
MergedStore(source_deal_id, target_deal_id) ==
    /\ facts' = [i \in DOMAIN facts |->
                    IF facts[i].deal_id = source_deal_id
                    THEN [facts[i] EXCEPT !.deal_id = target_deal_id] ELSE facts[i]]
    /\ events' = [k \in DOMAIN events |->
                    IF events[k].deal_id = source_deal_id
                    THEN [events[k] EXCEPT !.deal_id = target_deal_id] ELSE events[k]]
    /\ alerts' = Append(alerts, DealMergeAlert(deals[source_deal_id], target_deal_id))
    /\ deals' = [k \in DOMAIN deals \ {source_deal_id} |-> deals[k]]

merge_deals(source_deal_id, target_deal_id) ==
    /\ IF source_deal_id \notin DOMAIN deals \/ target_deal_id \notin DOMAIN deals
       THEN /\ merge_returned' = "False"
            /\ UNCHANGED <<facts, events, alerts, deals>>
       ELSE IF MergeViolatesForeignKey(source_deal_id, target_deal_id)
       THEN /\ merge_returned' = "IntegrityError"
            /\ UNCHANGED <<facts, events, alerts, deals>>
       ELSE /\ Len(alerts) < MaxAlerts
            /\ MergedStore(source_deal_id, target_deal_id)
            /\ merge_returned' = "True"
    /\ UNCHANGED <<runs, nextDealId, nextEventId, ingestVars, fetchVars,
                   textVars, bankVars>>

\* any two ids, of deals that exist or not
MergeDeals ==
    \E s, t \in 1..nextDealId : merge_deals(s, t)

\* an operator archives a deal (DealState.LOCKED)
LockDeal ==
    \E k \in DOMAIN deals :
        /\ deals[k].state # "LOCKED"
        /\ deals' = [deals EXCEPT ![k].state = "LOCKED"]
        /\ UNCHANGED <<runs, facts, events, alerts, nextDealId, nextEventId, ingestVars, fetchVars, helperVars>>

Next ==
    \/ IngestFact
    \/ ClusterRun
    \/ ReconcileRun
    \/ MergeDeals
    \/ LockDeal

Spec == Init /\ [][Next]_vars

\* clustering runs over an append-only fact store, nothing else
NextCluster == IngestFact \/ ClusterRun

SpecCluster == Init /\ [][NextCluster]_vars

\* ---------------------------------------------------- ClassificationEngine
\* the events of a deal, as `query(FinancingEvent).filter(deal_id == ...)`
EventsOf(e, deal_id) == Rows({x \in DOMAIN e : e[x].deal_id = deal_id})

\* primary market tag of a deal from the tags its events carry now
determine_market_tag(e, deal_id) ==
    LET evs == EventsOf(e, deal_id)
        tags == SelectSeq([k \in DOMAIN evs |-> e[evs[k]].market_tag],
                          LAMBDA t : t # "")
    IN  IF evs = <<>> THEN ""
        ELSE IF "Term_Loan_B" \in Range(tags) THEN "Term_Loan_B"
        ELSE IF "HY_Bond" \in Range(tags) THEN "HY_Bond"
        ELSE IF "Bridge" \in Range(tags) THEN "Bridge"
        ELSE IF "IG_Bond" \in Range(tags) THEN "IG_Bond"
        ELSE IF tags # <<>> THEN tags[1]
        ELSE ""

\* the deal row after classify_deal; the hy_financing signal is recorded by
\* the code but is not read when is_sponsor_backed is inferred
classify_deal(d, e, deal_id) ==
    LET deal == d[deal_id]
        evs == Range(EventsOf(e, deal_id))
        tlb_financing == \E x \in evs : e[x].instrument_type = "term_loan_b"
        is_sponsor_backed ==
            IF deal.is_sponsor_backed # "NULL" THEN deal.is_sponsor_backed
            ELSE IF deal.sponsor_name_normalized # "" THEN "TRUE"
            ELSE IF tlb_financing THEN "TRUE" ELSE "FALSE"
    IN  [deal EXCEPT !.is_sponsor_backed = is_sponsor_backed,
                     !.market_tag = determine_market_tag(e, deal_id)]

\* `for deal in query(Deal).filter(market_tag IS NULL): classify_deal(deal)`
classify_all_deals(d, e) ==
    [k \in DOMAIN d |-> IF d[k].market_tag = "" THEN classify_deal(d, e, k) ELSE d[k]]

\* variant: the deal of the event is not looked up for the bond default
classify_financing_event_NoDealLookup(d, f, ev) ==
    LET ind == UNION {f[i].indicators : i \in Range(ev.source_fact_ids) \cap DOMAIN f}
        family == IF ev.instrument_family = "" THEN "unknown" ELSE ev.instrument_family
        sponsor_backed == FALSE
    IN  IF "bridge" \in ind
        THEN [ev EXCEPT !.market_tag = "Bridge", !.instrument_type = "bridge",
                        !.instrument_family = family]
        ELSE IF "tlb" \in ind
        THEN [ev EXCEPT !.market_tag = "Term_Loan_B", !.instrument_type = "term_loan_b",
                        !.instrument_family = "loan"]
        ELSE IF "rcf" \in ind
        THEN [ev EXCEPT !.market_tag = "Other_Loan", !.instrument_type = "rcf",
                        !.instrument_family = "loan"]
        ELSE IF family = "bond"
        THEN [ev EXCEPT !.market_tag =
                            IF "hy" \in ind /\ "ig" \notin ind THEN "HY_Bond"
                            ELSE IF "ig" \in ind THEN "IG_Bond"
                            ELSE IF sponsor_backed THEN "HY_Bond" ELSE "IG_Bond",
                        !.instrument_family = family]
        ELSE IF family = "loan"
        THEN IF "hy" \in ind
             THEN [ev EXCEPT !.market_tag = "Term_Loan_B", !.instrument_type = "term_loan_b",
                             !.instrument_family = family]
             ELSE [ev EXCEPT !.market_tag = "Other_Loan", !.instrument_family = family]
        ELSE [ev EXCEPT !.market_tag = "Unknown", !.instrument_family = family]

\* the event row after classify_financing_event
classify_financing_event(d, f, ev) ==
    LET ind == UNION {f[i].indicators : i \in Range(ev.source_fact_ids) \cap DOMAIN f}
        family == IF ev.instrument_family = "" THEN "unknown" ELSE ev.instrument_family
        sponsor_backed == ev.deal_id \in DOMAIN d /\ d[ev.deal_id].is_sponsor_backed = "TRUE"
    IN  IF "bridge" \in ind
        THEN [ev EXCEPT !.market_tag = "Bridge", !.instrument_type = "bridge",
                        !.instrument_family = family]
        ELSE IF "tlb" \in ind
        THEN [ev EXCEPT !.market_tag = "Term_Loan_B", !.instrument_type = "term_loan_b",
                        !.instrument_family = "loan"]
        ELSE IF "rcf" \in ind
        THEN [ev EXCEPT !.market_tag = "Other_Loan", !.instrument_type = "rcf",
                        !.instrument_family = "loan"]
        ELSE IF family = "bond"
        THEN [ev EXCEPT !.market_tag =
                            IF "hy" \in ind /\ "ig" \notin ind THEN "HY_Bond"
                            ELSE IF "ig" \in ind THEN "IG_Bond"
                            ELSE IF sponsor_backed THEN "HY_Bond" ELSE "IG_Bond",
                        !.instrument_family = family]
        ELSE IF family = "loan"
        THEN IF "hy" \in ind
             THEN [ev EXCEPT !.market_tag = "Term_Loan_B", !.instrument_type = "term_loan_b",
                             !.instrument_family = family]
             ELSE [ev EXCEPT !.market_tag = "Other_Loan", !.instrument_family = family]
        ELSE [ev EXCEPT !.market_tag = "Unknown", !.instrument_family = family]

\* `for event in query(FinancingEvent).filter(market_tag IS NULL): ...`
classify_all_financing_events(d, f, e) ==
    [x \in DOMAIN e |-> IF e[x].market_tag = "" THEN classify_financing_event(d, f, e[x])
                        ELSE e[x]]

\* classify_deals: all unclassified deals first, then all unclassified events
classify_deals(d, f, e) ==
    LET d1 == classify_all_deals(d, e)
    IN  [d |-> d1, e |-> classify_all_financing_events(d1, f, e)]

\* one event of one deal, with one source fact: every combination of the
\* pattern groups matching the evidence, of the instrument and of the deal's
\* sponsor flag
Indicators == {"ig", "hy", "tlb", "bridge", "rcf"}
Instruments == {"bond", "loan", ""}
SponsorFlags == {"NULL", "TRUE", "FALSE"}

InitClassify ==
    /\ \E ind \in SUBSET Indicators, instrument \in Instruments, flag \in SponsorFlags :
          LET fact == FinancingFact(1, 0, instrument, "", 1000000, <<>>, NoEvidence, ind)
                          @@ [deal_id |-> 1]
              deal == NewDeal(1, "CANDIDATE", [cik |-> "0001", name |-> "alpha"],
                              [cik |-> "", name |-> "target"],
                              <<"cik", "0001", "name", "target">>)
          IN  /\ facts = <<fact>>
              /\ deals = <<[deal EXCEPT !.is_sponsor_backed = flag]>>
              /\ events = <<create_financing_event(1, fact, 1, 100)>>
    /\ alerts = <<>>
    /\ nextDealId = 2
    /\ nextEventId = 2
    /\ runs = [r \in Runs |-> ClosedSession]
    /\ InitIngestFetch
    /\ InitHelpers

\* classify_financing_event(event) is called and commits
ClassifyEvent ==
    \E x \in DOMAIN events :
        /\ events' = [events EXCEPT ![x] = classify_financing_event(deals, facts, events[x])]
        /\ UNCHANGED <<runs, facts, deals, alerts, nextDealId, nextEventId,
                       ingestVars, fetchVars, helperVars>>

NextClassify == ClassifyEvent

SpecClassify == InitClassify /\ [][NextClassify]_vars

\* ------------------------------------------------------- AttributionEngine
\* underwriting fee schedule of the attribution configuration, in bps
underwriting_fee_bps ==
    [HY_Bond |-> 250, IG_Bond |-> 50, Term_Loan_B |-> 200, Unknown |-> 100]

get_underwriting_bps(market_tag) ==
    IF market_tag \in DOMAIN underwriting_fee_bps THEN underwriting_fee_bps[market_tag]
    ELSE IF "Unknown" \in DOMAIN underwriting_fee_bps THEN underwriting_fee_bps["Unknown"]
    ELSE 100

\* the fee _calculate_event_fee returns for the event (whole USD)
event_fee(ev) ==
    IF ev.amount_usd = 0 THEN 0
    ELSE (ev.amount_usd *
          get_underwriting_bps(IF ev.market_tag = "" THEN "Unknown" ELSE ev.market_tag))
         \div 10000

\* the event row after _calculate_event_fee; participants are not touched
calculate_event_fee(ev) ==
    IF ev.amount_usd = 0 THEN ev ELSE [ev EXCEPT !.estimated_fee_usd = event_fee(ev)]

\* role_splits of the attribution configuration: instrument family -> role
\* -> weight.  Weights are in tenths (10 is 1.0, 2 is 0.2), fees are exact
\* fractions [num, den].
RoleSplitConfigs ==
    { [bond |-> (S_joint_bookrunner :> 10 @@ S_co_manager :> 2 @@ S_other :> 1),
       loan |-> (S_joint_lead_arranger :> 10 @@ S_other :> 1)],
      [bond |-> (S_joint_bookrunner :> 0 @@ S_other :> 0)],
      [bond |-> (S_joint_bookrunner :> 10)] }

\* the weight given when neither the role nor 'other' has an entry (0.1)
DefaultWeight == 1

\* variant: every participant gets the same weight
role_weight_Flat(splits, role_normalized) == DefaultWeight

\* `role_splits.get(role_normalized, role_splits.get('other', 0.1))`
role_weight(splits, role_normalized) ==
    LET role == IF role_normalized = <<>> THEN S_other ELSE role_normalized
    IN  IF role \in DOMAIN splits THEN splits[role]
        ELSE IF S_other \in DOMAIN splits THEN splits[S_other]
        ELSE DefaultWeight

RECURSIVE SumWeights(_)
SumWeights(ps) ==
    IF ps = <<>> THEN 0 ELSE Head(ps).role_weight + SumWeights(Tail(ps))

\* the event row after _allocate_to_participants(event, total_fee)
allocate_to_participants(config, ev, total_fee) ==
    IF total_fee = 0 \/ ev.participants = <<>> THEN ev
    ELSE
    LET instrument_family == IF ev.instrument_family = "" THEN "loan"
                             ELSE ev.instrument_family
        splits == IF instrument_family \in DOMAIN config THEN config[instrument_family]
                  ELSE <<>>
        weighted == [k \in DOMAIN ev.participants |->
                        [ev.participants[k] EXCEPT
                            !.role_weight = role_weight(splits, ev.participants[k].role_normalized)]]
        total_weight == SumWeights(weighted)
    IN  [ev EXCEPT !.participants =
            [k \in DOMAIN weighted |->
                [weighted[k] EXCEPT !.estimated_fee_usd =
                    IF total_weight > 0
                    THEN [num |-> total_fee * weighted[k].role_weight, den |-> total_weight]
                    ELSE [num |-> total_fee, den |-> Len(weighted)]]]]

\* the event row with the fee of every participant written as a fraction
InFractions(ev) ==
    [ev EXCEPT !.participants =
        [k \in DOMAIN ev.participants |->
            [ev.participants[k] EXCEPT !.estimated_fee_usd = [num |-> @, den |-> 1]]]]

\* one event with up to MaxParticipants participants
RawRoles == {S_raw_jb, S_co_manager_h, S_lead_manager, <<>>}
ParticipantLists == UNION {[1..n -> RawRoles] : n \in 0..MaxParticipants}

InitAllocate ==
    /\ \E instrument \in Instruments, tag \in {"", "HY_Bond"}, amount \in {0, 1200000},
          ps \in ParticipantLists :
          LET fact == FinancingFact(1, 0, instrument, "", amount, ps, NoEvidence, {})
                          @@ [deal_id |-> 1]
              deal == NewDeal(1, "CANDIDATE", [cik |-> "0001", name |-> "alpha"],
                              [cik |-> "", name |-> "target"],
                              <<"cik", "0001", "name", "target">>)
          IN  /\ facts = <<fact>>
              /\ deals = <<deal>>
              /\ events = <<InFractions([create_financing_event(1, fact, 1, 100)
                                            EXCEPT !.market_tag = tag])>>
    /\ alerts = <<>>
    /\ nextDealId = 2
    /\ nextEventId = 2
    /\ runs = [r \in Runs |-> ClosedSession]
    /\ InitIngestFetch
    /\ InitHelpers

\* calculate_event_fee(event) on an engine loaded with config; without an
\* allocation nothing is committed
CalculateEventFee(config, x) ==
    /\ event_fee(events[x]) # 0
    /\ events[x].participants # <<>>
    /\ events' = [events EXCEPT ![x] =
                    allocate_to_participants(config, calculate_event_fee(events[x]),
                                             event_fee(events[x]))]
    /\ UNCHANGED <<runs, facts, deals, alerts, nextDealId, nextEventId,
                   ingestVars, fetchVars, helperVars>>

NextAllocate ==
    \E config \in RoleSplitConfigs, x \in DOMAIN events : CalculateEventFee(config, x)

SpecAllocate == InitAllocate /\ [][NextAllocate]_vars

RECURSIVE total_underwriting(_, _)
total_underwriting(e, evs) ==
    IF evs = <<>> THEN 0
    ELSE event_fee(e[Head(evs)]) + total_underwriting(e, Tail(evs))

\* calculate_all_fees: calculate_deal_fees for every deal.  No deal of the
\* pipeline carries a deal_value_usd, so no advisory fee is computed.
calculate_fees(d, e) ==
    [d |-> [k \in DOMAIN d |->
                [d[k] EXCEPT !.underwriting_fee_estimated =
                                 total_underwriting(e, EventsOf(e, k))]],
     e |-> [x \in DOMAIN e |->
                IF e[x].deal_id \in DOMAIN d THEN calculate_event_fee(e[x]) ELSE e[x]]]

\* ------------------------------------------------------------ run_pipeline
\* cluster -> reconcile -> classify -> attribute on one session
attribute_stage(c, r, k) ==
    LET a == calculate_fees(k.d, k.e)
    IN  [f |-> r.f, d |-> a.d, e |-> a.e, a |-> c.a, n |-> c.n, m |-> r.n]

classify_stage(c, r) == attribute_stage(c, r, classify_deals(c.d, r.f, r.e))

reconcile_stage(c) == classify_stage(c, reconcile_store(c.f, c.d, events, nextEventId))

run_pipeline == reconcile_stage(cluster_facts)

RunPipeline ==
    LET st == run_pipeline
    IN  /\ Len(st.a) <= MaxAlerts
        /\ facts' = st.f
        /\ deals' = st.d
        /\ events' = st.e
        /\ alerts' = st.a
        /\ nextDealId' = st.n
        /\ nextEventId' = st.m
        /\ UNCHANGED <<runs, ingestVars, fetchVars, helperVars>>

NextPipeline == IngestFact \/ RunPipeline

SpecPipeline == Init /\ [][NextPipeline]_vars

\* ------------------------------------------------------------- ingestion
\* The registry as the task finds it: the filings of the company, each with a
\* primary document and the exhibits its index lists.  A merger agreement is
\* described by what the pattern pack finds in its preamble: whether the
\* header matches, the parties of the party span (name as normalized, label
\* as found in role_map, "" when the lookup misses) and the agreement date;
\* preamble names the preamble text, equal names for equal texts.
MergerAgreement(preamble, parties, date) ==
    [exhibit_type |-> "EX-2.1", is_pdf |-> FALSE, material |-> FALSE,
     header |-> TRUE, preamble |-> preamble, parties |-> parties, date |-> date,
     sponsors |-> <<>>]

\* An EX-10 exhibit: whether its file is a PDF, whether its description
\* matches MATERIAL_EXHIBIT_PATTERNS, and the sponsors its text mentions when
\* the description holds "commitment" or "equity".
FinancingExhibit(is_pdf, material, sponsors) ==
    [exhibit_type |-> "EX-10.1", is_pdf |-> is_pdf, material |-> material,
     header |-> FALSE, parties |-> <<>>, date |-> "", sponsors |-> sponsors]

Registry ==
    << [cik |-> "0001", form_type |-> "8-K", item_facts |-> <<>>,
        exhibits |-> << MergerAgreement("p1",
                          << [name |-> "alpha", label |-> "Parent"],
                             [name |-> "alpha sub", label |-> "Merger Sub"],
                             [name |-> "target", label |-> "Company"] >>,
                          "2024-01-15") >>],
       [cik |-> "0001", form_type |-> "8-K", item_facts |-> <<>>,
        exhibits |-> << MergerAgreement("p2", <<>>, ""),
                        FinancingExhibit(FALSE, TRUE, <<>>),
                        FinancingExhibit(TRUE, TRUE, <<>>) >>],
       [cik |-> "0002", form_type |-> "8-K", item_facts |-> <<>>,
        exhibits |-> << MergerAgreement("p2", <<>>, "") >>] >>

\* the companies with filings, and the one whose filings are watched
Companies == {Registry[k].cik : k \in DOMAIN Registry}
Watched == {"0001"}

\* client.search_filings(cik): the filings of the company, in order
search_filings(cik) == Rows({k \in DOMAIN Registry : Registry[k].cik = cik})

\* what a fetch can end in, after the client's own retries
FetchOutcomes == {"ok", "blocked", "error"}

\* str.lower() on the role labels the extractor emits
LowerLabel(l) ==
    CASE l = "Parent" -> "parent" [] l = "Company" -> "company"
      [] l = "Merger Sub" -> "merger sub" [] l = "Unknown" -> "unknown"
      [] OTHER -> l

\* the role_label of party i of a party list of n parties
party_role_label(parties, i) ==
    IF parties[i].label # "" THEN parties[i].label
    ELSE IF Len(parties) = 3 /\ i = 3 THEN "Company"
    ELSE IF Len(parties) >= 2 /\ i = 1 THEN "Parent"
    ELSE "Unknown"

\* hashlib.sha256(text).hexdigest(): equal for equal texts, and taken to be
\* different for different texts
sha256(preamble_text) == <<"sha256", preamble_text>>

FailedExtractionAlert(filing, doc) ==
    [alert_type |-> "FAILED_PRIVATE_TARGET_EXTRACTION", deal_id |-> 0,
     filing_id |-> filing, is_resolved |-> FALSE, resolution_notes |-> <<>>,
     preamble_hash |-> sha256(doc.preamble)]

\* facts and alerts of one EX-2.1 exhibit; the payload is built without a cik
extract_from_merger_agreement(ex, filing, exhibit, doc) ==
    IF ~ex.has_text \/ ~doc.header THEN [facts |-> <<>>, alerts |-> <<>>]
    ELSE
    LET party_facts ==
            [i \in DOMAIN doc.parties |->
                [PartyFact("PARTY_DEFINITION", filing, exhibit,
                           LowerLabel(party_role_label(doc.parties, i)),
                           doc.parties[i].name, "")
                 EXCEPT !.confidence = IF doc.parties[i].label # "" THEN 90 ELSE 60]]
        date_facts == IF doc.date = "" THEN <<>>
                      ELSE <<DateFact(filing, exhibit, doc.date)>>
    IN  [facts |-> party_facts \o date_facts,
         alerts |-> IF doc.parties = <<>> THEN <<FailedExtractionAlert(filing, doc)>> ELSE <<>>]

\* facts of one EX-10 exhibit: sponsor mentions of a commitment letter; no
\* alert is raised
extract_from_ex10(ex, filing, exhibit, doc) ==
    IF ~ex.has_text THEN [facts |-> <<>>, alerts |-> <<>>]
    ELSE [facts |-> [i \in DOMAIN doc.sponsors |->
                        SponsorFact(filing, exhibit, doc.sponsors[i], 90)],
          alerts |-> <<>>]

\* extract_from_filing: the primary document of an 8-K, then every exhibit
RECURSIVE extract_exhibits(_, _, _)
extract_exhibits(exs, filing, ids) ==
    IF ids = <<>> THEN [facts |-> <<>>, alerts |-> <<>>]
    ELSE LET ex == exs[Head(ids)]
             doc == Registry[ex.accession].exhibits[ex.seq]
             one == IF ex.exhibit_type = "EX-2.1"
                    THEN extract_from_merger_agreement(ex, filing, Head(ids), doc)
                    ELSE IF ex.exhibit_type = "EX-10.1"
                    THEN extract_from_ex10(ex, filing, Head(ids), doc)
                    ELSE [facts |-> <<>>, alerts |-> <<>>]
             rest == extract_exhibits(exs, filing, Tail(ids))
         IN  [facts |-> one.facts \o rest.facts, alerts |-> one.alerts \o rest.alerts]

extract_from_filing(fl, exs, filing) ==
    LET main == IF fl[filing].form_type \in {"8-K", "8-K/A"} /\ fl[filing].has_text
                THEN Registry[fl[filing].accession].item_facts ELSE <<>>
        rest == extract_exhibits(exs, filing,
                                 Rows({x \in DOMAIN exs : exs[x].filing_id = filing}))
    IN  [facts |-> main \o rest.facts, alerts |-> rest.alerts]

\* documents with a cached response: a fetch of them sends no request
Cached(doc) == \E i \in DOMAIN requests : requests[i].doc = doc /\ requests[i].outcome = "ok"

\* client.fetch(doc) ends in outcome o
Fetch(doc, o) ==
    IF Cached(doc) THEN o = "ok" /\ UNCHANGED requests
    ELSE requests' = Append(requests, [doc |-> doc, outcome |-> o])

storeVars == <<facts, deals, events, alerts, nextDealId, nextEventId, runs>>

\* ingest_company_filings starts: search_filings fetches the filing list; an
\* exception leaves through `except: rollback; raise`
\* ingest_company_filings(cik) is started for one of the companies ciks, as
\* long as fewer than limit requests were made
StartIngestFor(ciks, limit) ==
    /\ task.pc \in {"idle", "done"}
    /\ Len(requests) < limit
    /\ \E cik \in ciks, o \in FetchOutcomes :
        /\ Fetch(<<"list", cik>>, o)
        /\ task' = IF o = "ok"
                   THEN [IdleTask EXCEPT !.pc = "next", !.todo = search_filings(cik)]
                   ELSE [IdleTask EXCEPT !.pc = "done",
                                         !.result = IF o = "blocked" THEN "Blocked"
                                                    ELSE "Error"]
    /\ UNCHANGED <<storeVars, filings, exhibits, manual_inputs, fetchVars, helperVars>>

StartIngest == StartIngestFor(Watched, MaxRequests)

AlreadyIngested(accession) ==
    \E k \in DOMAIN filings : filings[k].accession = accession

\* `if existing: continue`
SkipExisting ==
    /\ task.pc = "next" /\ task.todo # <<>>
    /\ AlreadyIngested(Head(task.todo))
    /\ task' = [task EXCEPT !.todo = Tail(@)]
    /\ UNCHANGED <<storeVars, filings, exhibits, manual_inputs, requests, fetchVars, helperVars>>

\* the loop is over: the task returns
FinishIngest ==
    /\ task.pc = "next" /\ task.todo = <<>>
    /\ task' = [task EXCEPT !.pc = "done", !.result = "ok"]
    /\ UNCHANGED <<storeVars, filings, exhibits, manual_inputs, requests, fetchVars, helperVars>>

\* ingest_single_filing up to the flush: the primary document is fetched and
\* any exception of the fetch is swallowed
FetchPrimary ==
    /\ task.pc = "next" /\ task.todo # <<>>
    /\ ~AlreadyIngested(Head(task.todo))
    /\ \E o \in FetchOutcomes :
        /\ Fetch(<<"primary", Head(task.todo)>>, o)
        /\ task' = [task EXCEPT !.pc = "index", !.filing = Head(task.todo),
                                !.has_text = (o = "ok")]
    /\ UNCHANGED <<storeVars, filings, exhibits, manual_inputs, fetchVars, helperVars>>

\* fetch_exhibits: the index is fetched; on any exception the list is empty
FetchIndex ==
    /\ task.pc = "index"
    /\ \E o \in FetchOutcomes :
        /\ Fetch(<<"index", task.filing>>, o)
        /\ task' = [task EXCEPT !.pc = "exhibit",
                                !.ex_todo = IF o = "ok"
                                            THEN [k \in DOMAIN Registry[task.filing].exhibits |-> k]
                                            ELSE <<>>,
                                !.ex_new = <<>>]
    /\ UNCHANGED <<storeVars, filings, exhibits, manual_inputs, fetchVars, helperVars>>

\* the exhibit row create_exhibit builds; outcome is "none" when nothing is
\* fetched
exhibit_row(accession, seq, outcome) ==
    LET doc == Registry[accession].exhibits[seq]
    IN  [accession |-> accession, seq |-> seq, exhibit_type |-> doc.exhibit_type,
         is_pdf |-> doc.is_pdf, is_material |-> doc.material,
         has_text |-> (outcome = "ok"),
         extraction_quality |-> CASE outcome = "none" -> ""
                                  [] outcome = "ok" -> "good"
                                  [] OTHER -> "failed"]

\* create_exhibit: the content of an HTML exhibit is fetched; on any
\* exception the exhibit is kept without text; a PDF is not fetched
FetchExhibit ==
    /\ task.pc = "exhibit" /\ task.ex_todo # <<>>
    /\ LET seq == Head(task.ex_todo)
       IN  IF Registry[task.filing].exhibits[seq].is_pdf
           THEN /\ UNCHANGED requests
                /\ task' = [task EXCEPT !.ex_todo = Tail(@),
                                        !.ex_new = Append(@, exhibit_row(task.filing, seq, "none"))]
           ELSE \E o \in FetchOutcomes :
                /\ Fetch(<<"exhibit", task.filing, seq>>, o)
                /\ task' = [task EXCEPT !.ex_todo = Tail(@),
                                        !.ex_new = Append(@, exhibit_row(task.filing, seq, o))]
    /\ UNCHANGED <<storeVars, filings, exhibits, manual_inputs, fetchVars, helperVars>>

\* the commit that ends ingest_single_filing: filing and exhibits are stored
CommitFiling ==
    /\ task.pc = "exhibit" /\ task.ex_todo = <<>>
    /\ LET id == Cardinality(DOMAIN filings) + 1
           base == Cardinality(DOMAIN exhibits)
       IN  /\ filings' = id :> [accession |-> task.filing,
                                form_type |-> Registry[task.filing].form_type,
                                has_text |-> task.has_text, processed |-> FALSE] @@ filings
           /\ exhibits' = [x \in (base + 1)..(base + Len(task.ex_new)) |->
                              task.ex_new[x - base] @@ [filing_id |-> id]] @@ exhibits
           /\ task' = [task EXCEPT !.pc = "extract", !.filing = id, !.ex_new = <<>>]
    /\ UNCHANGED <<storeVars, manual_inputs, requests, fetchVars, helperVars>>

\* extract_facts_from_filing, the facts and alerts are added, the filing is
\* marked processed, commit
ExtractAndCommit ==
    /\ task.pc = "extract"
    /\ LET result == extract_from_filing(filings, exhibits, task.filing)
       IN  /\ facts' = facts \o [i \in DOMAIN result.facts |->
                                    result.facts[i] @@ [deal_id |-> 0]]
           /\ alerts' = alerts \o result.alerts
    /\ filings' = [filings EXCEPT ![task.filing].processed = TRUE]
    /\ task' = [task EXCEPT !.pc = "next", !.todo = Tail(@), !.filing = 0,
                            !.has_text = FALSE]
    /\ UNCHANGED <<deals, events, nextDealId, nextEventId, runs,
                   exhibits, manual_inputs, requests, fetchVars, helperVars>>

\* the task is cancelled, or something it calls raises: the open transaction
\* is rolled back, what was committed stays
CancelTask ==
    /\ task.pc \in {"next", "index", "exhibit", "extract"}
    /\ task' = [IdleTask EXCEPT !.pc = "done", !.result = "Cancelled"]
    /\ UNCHANGED <<storeVars, filings, exhibits, manual_inputs, requests, fetchVars, helperVars>>

\* ------------------------------------------------------ submit_manual_input
ManualPayloads == {"target_name", "financing"}

submit_manual_input(alert_id, data) ==
    IF alert_id \notin DOMAIN alerts
    THEN UNCHANGED vars
    ELSE /\ Len(manual_inputs) < MaxManualInputs
         /\ manual_inputs' = Append(manual_inputs,
                                [alert_id |-> alert_id, deal_id |-> alerts[alert_id].deal_id,
                                 input_type |-> data, data |-> data])
         /\ alerts' = [alerts EXCEPT ![alert_id].is_resolved = TRUE]
         /\ UNCHANGED <<facts, deals, events, nextDealId, nextEventId, runs,
                        filings, exhibits, task, requests, fetchVars, helperVars>>

SubmitManualInput ==
    \E alert_id \in 1..(MaxAlerts + 1), data \in ManualPayloads :
        submit_manual_input(alert_id, data)

NextIngest ==
    \/ StartIngest
    \/ SkipExisting
    \/ FinishIngest
    \/ FetchPrimary
    \/ FetchIndex
    \/ FetchExhibit
    \/ CommitFiling
    \/ ExtractAndCommit
    \/ CancelTask
    \/ ClusterRun
    \/ SubmitManualInput

SpecIngest == Init /\ [][NextIngest]_vars

\* The store once the filings of the watched company are ingested, every
\* fetch having succeeded.
WatchedFilings ==
    [k \in DOMAIN search_filings("0001") |->
        [accession |-> search_filings("0001")[k],
         form_type |-> Registry[search_filings("0001")[k]].form_type,
         has_text |-> TRUE, processed |-> TRUE]]

RECURSIVE WatchedExhibitsFrom(_)
WatchedExhibitsFrom(k) ==
    IF k > Len(WatchedFilings) THEN <<>>
    ELSE LET accession == WatchedFilings[k].accession
             docs == Registry[accession].exhibits
         IN  [seq \in DOMAIN docs |->
                exhibit_row(accession, seq, IF docs[seq].is_pdf THEN "none" ELSE "ok")
                    @@ [filing_id |-> k]]
             \o WatchedExhibitsFrom(k + 1)

WatchedExhibits == WatchedExhibitsFrom(1)

RECURSIVE WatchedResultFrom(_)
WatchedResultFrom(k) ==
    IF k > Len(WatchedFilings) THEN [facts |-> <<>>, alerts |-> <<>>]
    ELSE LET one == extract_from_filing(WatchedFilings, WatchedExhibits, k)
             rest == WatchedResultFrom(k + 1)
         IN  [facts |-> one.facts \o rest.facts, alerts |-> one.alerts \o rest.alerts]

WatchedIngested ==
    /\ filings = WatchedFilings
    /\ exhibits = WatchedExhibits
    /\ facts = [i \in DOMAIN WatchedResultFrom(1).facts |->
                    WatchedResultFrom(1).facts[i] @@ [deal_id |-> 0]]
    /\ alerts = WatchedResultFrom(1).alerts
    /\ deals = <<>> /\ events = <<>>
    /\ nextDealId = 1 /\ nextEventId = 1
    /\ manual_inputs = <<>>

\* a new process (nothing cached) finds the store with the watched company
\* ingested
InitExtract ==
    /\ WatchedIngested
    /\ runs = [r \in Runs |-> ClosedSession]
    /\ task = IdleTask
    /\ requests = <<>>
    /\ clock = 0
    /\ request_times = <<>>
    /\ sent = <<>>
    /\ cache = {}
    /\ threads = [t \in Threads |-> IdleThread]
    /\ InitHelpers

\* the filings of every company are ingested, task after task
StartIngestAny == StartIngestFor(Companies, MaxRequests)

NextExtract ==
    \/ StartIngestAny
    \/ SkipExisting
    \/ FinishIngest
    \/ FetchPrimary
    \/ FetchIndex
    \/ FetchExhibit
    \/ CommitFiling
    \/ ExtractAndCommit

SpecExtract == InitExtract /\ [][NextExtract]_vars

\* ----------------------------------------------------------- EdgarClient
\* One client is shared by the threads that run ingestion tasks.  Time is
\* counted in seconds; a step of a thread takes no time, and any time may
\* pass between two steps (idle time that changes nothing is left out).  The cache keeps a response for an hour, longer
\* than the runs considered here.
RateLimitWindow == 1
MaxAttempts == 5
Urls == {"u1", "u2"}
Statuses == {200, 429, 403}

Max2(a, b) == IF a >= b THEN a ELSE b
Min2(a, b) == IF a <= b THEN a ELSE b

\* wait_exponential(multiplier=1, min=2, max=60) after attempt number n
wait_exponential(n) == Max2(2, Min2(2 ^ (n - 1), 60))

fetchOnly == <<storeVars, ingestVars, helperVars>>

\* the passing of time makes a difference to the client: a thread waits
\* for a time to come, or a recorded request is still inside the window
TimeMatters ==
    \/ \E t \in Threads : threads[t].pc \in {"sleep", "backoff"} /\ threads[t].wake > clock
    \/ \E i \in DOMAIN request_times : clock - request_times[i] < RateLimitWindow

\* time passes, up to the horizon
Tick(horizon) ==
    /\ clock < horizon
    /\ TimeMatters
    /\ clock' = clock + 1
    /\ UNCHANGED <<fetchOnly, request_times, sent, cache, threads>>

\* a thread calls fetch(url): the first attempt begins
CallFetch(t) ==
    /\ threads[t].pc = "idle"
    /\ Len(sent) < MaxSent
    /\ \E url \in Urls :
        threads' = [threads EXCEPT ![t] = [IdleThread EXCEPT !.pc = "start", !.url = url,
                                                              !.attempt = 1]]
    /\ UNCHANGED <<fetchOnly, clock, request_times, sent, cache>>

\* an attempt begins with the cache: a hit returns the content at once
CheckCache(t) ==
    /\ threads[t].pc = "start"
    /\ threads' = [threads EXCEPT ![t] =
                      IF threads[t].url \in cache
                      THEN [IdleThread EXCEPT !.result = "content"]
                      ELSE [@ EXCEPT !.pc = "limit"]]
    /\ UNCHANGED <<fetchOnly, clock, request_times, sent, cache>>

\* _wait_for_rate_limit: now is read and the expired request times are
\* dropped
PruneTimes(t) ==
    /\ threads[t].pc = "limit"
    /\ request_times' = SelectSeq(request_times, LAMBDA x : clock - x < RateLimitWindow)
    /\ threads' = [threads EXCEPT ![t].pc = "check", ![t].now = clock]
    /\ UNCHANGED <<fetchOnly, clock, sent, cache>>

\* _wait_for_rate_limit: the length is compared; a full window makes the
\* thread sleep until its oldest request expires
CheckWindow(t) ==
    /\ threads[t].pc = "check"
    /\ LET sleep_time == IF Len(request_times) >= RateLimitRequests
                         THEN RateLimitWindow - (threads[t].now - request_times[1])
                         ELSE 0
       IN  threads' = [threads EXCEPT
                          ![t].pc = IF sleep_time > 0 THEN "sleep" ELSE "send",
                          ![t].wake = IF sleep_time > 0 THEN clock + sleep_time ELSE 0,
                          ![t].now = 0]
    /\ UNCHANGED <<fetchOnly, clock, request_times, sent, cache>>

\* time.sleep returns
WakeUp(t) ==
    /\ threads[t].pc = "sleep"
    /\ clock >= threads[t].wake
    /\ threads' = [threads EXCEPT ![t].pc = "send", ![t].wake = 0]
    /\ UNCHANGED <<fetchOnly, clock, request_times, sent, cache>>

\* what fetch does with the response of this attempt
Respond(th, status) ==
    CASE status = 429 ->
            IF th.attempt < MaxAttempts
            THEN [th EXCEPT !.pc = "backoff",
                            !.wake = clock + wait_exponential(th.attempt)]
            ELSE [IdleThread EXCEPT !.result = "RetryError"]
      [] status = 403 -> [IdleThread EXCEPT !.result = "Blocked"]
      [] OTHER -> [IdleThread EXCEPT !.result = "content"]

\* the request time is recorded, the request is sent and answered
SendRequest(t) ==
    /\ threads[t].pc = "send"
    /\ Len(sent) < MaxSent
    /\ request_times' = Append(request_times, clock)
    /\ sent' = Append(sent, clock)
    /\ \E status \in Statuses :
        /\ threads' = [threads EXCEPT ![t] = Respond(threads[t], status)]
        /\ cache' = IF status = 200 THEN cache \cup {threads[t].url} ELSE cache
    /\ UNCHANGED <<fetchOnly, clock>>

\* the wait before the next attempt is over
Retry(t) ==
    /\ threads[t].pc = "backoff"
    /\ clock >= threads[t].wake
    /\ threads' = [threads EXCEPT ![t].pc = "start", ![t].attempt = @ + 1,
                                  ![t].wake = 0]
    /\ UNCHANGED <<fetchOnly, clock, request_times, sent, cache>>

\* a step of thread t inside fetch
FetchStep(t) ==
    \/ CallFetch(t)
    \/ CheckCache(t)
    \/ PruneTimes(t)
    \/ CheckWindow(t)
    \/ WakeUp(t)
    \/ SendRequest(t)
    \/ Retry(t)

\* one thread fetching, long enough for every wait between its attempts
NextRetry == Tick(MaxClock) \/ FetchStep("t1")

SpecRetry == Init /\ [][NextRetry]_vars

\* the threads of concurrently running ingestion tasks
NextFetch == Tick(MaxRaceClock) \/ \E t \in Threads : FetchStep(t)

SpecFetch == Init /\ [][NextFetch]_vars

\* ---------------------------------------------------------- normalize_text
\* A string is a sequence of characters: a letter, space, tab, newline and
\* the no-break space, which stands for the characters CHAR_REPLACEMENTS
\* substitutes.
Chars == {"a", "SP", "TAB", "NL", "NBSP"}
Texts == UNION {[1..n -> Chars] : n \in 0..MaxTextLen}
Unnormalized == <<"none">>

\* text.replace(old, new) for every entry of CHAR_REPLACEMENTS
replace_chars(s) == [i \in DOMAIN s |-> IF s[i] = "NBSP" THEN "SP" ELSE s[i]]

\* s without its longest prefix of characters of S
RECURSIVE DropLeading(_, _)
DropLeading(s, S) ==
    IF s # <<>> /\ Head(s) \in S THEN DropLeading(Tail(s), S) ELSE s

\* the length of the longest prefix of s of characters of S
LeadingLen(s, S) == Len(s) - Len(DropLeading(s, S))

Repeat(c, n) == [i \in 1..n |-> c]

\* re.sub(r'[ \t]+', ' ', text)
RECURSIVE collapse_blanks(_)
collapse_blanks(s) ==
    IF s = <<>> THEN <<>>
    ELSE IF Head(s) \in {"SP", "TAB"}
    THEN <<"SP">> \o collapse_blanks(DropLeading(s, {"SP", "TAB"}))
    ELSE <<Head(s)>> \o collapse_blanks(Tail(s))

\* re.sub(r'\n{3,}', '\n\n', text)
RECURSIVE collapse_newlines(_)
collapse_newlines(s) ==
    IF s = <<>> THEN <<>>
    ELSE IF Head(s) = "NL"
    THEN LET run == LeadingLen(s, {"NL"})
         IN  Repeat("NL", IF run >= 3 THEN 2 ELSE run)
                \o collapse_newlines(DropLeading(s, {"NL"}))
    ELSE <<Head(s)>> \o collapse_newlines(Tail(s))

\* re.sub(r' *\n *', '\n', text): leftmost matches, left to right
RECURSIVE clean_newlines(_)
clean_newlines(s) ==
    IF s = <<>> THEN <<>>
    ELSE LET k == LeadingLen(s, {"SP"})
             rest == DropLeading(s, {"SP"})
         IN  IF rest # <<>> /\ Head(rest) = "NL"
             THEN <<"NL">> \o clean_newlines(DropLeading(Tail(rest), {"SP"}))
             ELSE IF k > 0 THEN Repeat("SP", k) \o clean_newlines(rest)
             ELSE <<Head(s)>> \o clean_newlines(Tail(s))

Reverse(s) == [i \in DOMAIN s |-> s[Len(s) + 1 - i]]

\* str.strip()
Whitespace == {"SP", "TAB", "NL", "NBSP"}
strip(s) == Reverse(DropLeading(Reverse(DropLeading(s, Whitespace)), Whitespace))

normalize_text(s) ==
    strip(clean_newlines(collapse_newlines(collapse_blanks(replace_chars(s)))))

InitNormalize ==
    /\ facts = <<>> /\ deals = <<>> /\ events = <<>> /\ alerts = <<>>
    /\ nextDealId = 1 /\ nextEventId = 1
    /\ runs = [r \in Runs |-> ClosedSession]
    /\ InitIngestFetch
    /\ text \in Texts
    /\ normalized = Unnormalized
    /\ banks = <<>> /\ bank_cache = <<>> /\ link_returned = NoCall
    /\ merge_returned = "none"

\* normalize_text(text) is called
NormalizeText ==
    /\ normalized = Unnormalized
    /\ normalized' = normalize_text(text)
    /\ UNCHANGED <<storeVars, ingestVars, fetchVars, text, bankVars, merge_returned>>

\* text that was normalized is normalized again
NormalizeAgain ==
    /\ normalized # Unnormalized
    /\ text' = normalized
    /\ normalized' = normalize_text(normalized)
    /\ UNCHANGED <<storeVars, ingestVars, fetchVars, bankVars, merge_returned>>

NextNormalize == NormalizeText \/ NormalizeAgain

SpecNormalize == InitNormalize /\ [][NextNormalize]_vars

\* --------------------------------------------------------- BankResolver
\* the raw bank names handed to the resolver
RawNames == {"", "Goldman Sachs", "Goldman Sach", "GS", "Acme Capital", "ACME", "Zenith LLC"}

\* BankResolver._normalize: lower case, the suffixes of the list cut off
\* (' capital', ', llc' / ' llc'), whitespace collapsed
_normalize(name) ==
    CASE name = "Goldman Sachs" -> "goldman sachs"
      [] name = "Goldman Sach" -> "goldman sach"
      [] name = "GS" -> "gs"
      [] name = "Acme Capital" -> "acme"
      [] name = "ACME" -> "acme"
      [] name = "Zenith LLC" -> "zenith"
      [] OTHER -> ""

\* the rows seed_banks leaves for Goldman Sachs: the bank and its aliases
SeedBanks == <<[name |-> "Goldman Sachs", name_normalized |-> "goldman sachs"]>>
SeedAliases == <<[bank_id |-> 1, alias_normalized |-> "gs"],
                 [bank_id |-> 1, alias_normalized |-> "goldman"]>>

\* config.thresholds.get('fuzzy_bank_match_min', 92)
fuzzy_threshold == 92

\* rapidfuzz fuzz.ratio of two name_normalized names, rounded down:
\* 200 * LCS(a, b) / (len(a) + len(b))
fuzz_ratio(a, b) ==
    LET p == {a, b} IN
    CASE a = b -> 100
      [] p = {"goldman sach", "goldman sachs"} -> 96
      [] p = {"goldman", "goldman sach"} -> 73
      [] p = {"goldman", "goldman sachs"} -> 70
      [] p = {"goldman sach", "gs"} -> 28
      [] p = {"goldman sachs", "gs"} -> 26
      [] p = {"acme", "goldman sach"} -> 25
      [] p = {"acme", "goldman sachs"} -> 23
      [] p = {"goldman", "gs"} -> 22
      [] p = {"goldman sach", "zenith"} -> 22
      [] p = {"goldman sachs", "zenith"} -> 21
      [] p = {"acme", "zenith"} -> 20
      [] p = {"acme", "goldman"} -> 18
      [] p = {"goldman", "zenith"} -> 15
      [] OTHER -> 0

\* the choices _fuzzy_match builds: for every bank its name_normalized name, then
\* its aliases
RECURSIVE FuzzyChoices(_, _)
FuzzyChoices(b, k) ==
    IF k > Len(b) THEN <<>>
    ELSE <<[text |-> b[k].name_normalized, bank_id |-> k]>>
         \o SelectSeq([i \in 1..Len(SeedAliases) |->
                          [text |-> SeedAliases[i].alias_normalized,
                           bank_id |-> SeedAliases[i].bank_id]],
                      LAMBDA c : c.bank_id = k)
         \o FuzzyChoices(b, k + 1)

\* _fuzzy_match: the best choice (the first of the best ones), taken when its
\* score reaches the threshold; choice_to_bank keeps the last bank of a text
_fuzzy_match(b, name_normalized) ==
    LET choices == FuzzyChoices(b, 1)
        score(i) == fuzz_ratio(name_normalized, choices[i].text)
    IN  IF Len(b) = 0 THEN 0
        ELSE LET best == CHOOSE i \in 1..Len(choices) :
                            \A j \in 1..Len(choices) :
                                score(j) < score(i) \/ (score(j) = score(i) /\ j >= i)
                 last == CHOOSE i \in 1..Len(choices) :
                            /\ choices[i].text = choices[best].text
                            /\ \A j \in 1..Len(choices) :
                                  choices[j].text = choices[best].text => j <= i
             IN  IF score(best) >= fuzzy_threshold THEN choices[last].bank_id ELSE 0

\* the lookups of resolve after the cache missed: exact name, alias, fuzzy
LookupBank(b, name_normalized) ==
    LET exact == {k \in 1..Len(b) : b[k].name_normalized = name_normalized}
        alias == {i \in 1..Len(SeedAliases) :
                     /\ SeedAliases[i].alias_normalized = name_normalized
                     /\ SeedAliases[i].bank_id \in 1..Len(b)}
    IN  IF exact # {} THEN CHOOSE k \in exact : \A j \in exact : k <= j
        ELSE IF alias # {}
             THEN SeedAliases[CHOOSE i \in alias : \A j \in alias : i <= j].bank_id
        ELSE _fuzzy_match(b, name_normalized)

\* self._cache[name_normalized] = match, whatever match is
CacheAfterLookup(c, name_normalized, match) ==
    (name_normalized :> match) @@ c

\* resolve: the id of the matched bank (0 for None) and the cache it leaves
resolve(b, c, bank_name_raw) ==
    IF bank_name_raw = "" THEN [bank_id |-> 0, cache |-> c]
    ELSE LET name_normalized == _normalize(bank_name_raw) IN
         IF name_normalized \in DOMAIN c
         THEN [bank_id |-> c[name_normalized], cache |-> c]
         ELSE LET match == LookupBank(b, name_normalized) IN
              [bank_id |-> match, cache |-> CacheAfterLookup(c, name_normalized, match)]

\* the table has a seeded bank, the resolver was just constructed
InitBanks ==
    /\ facts = <<>> /\ deals = <<>> /\ events = <<>> /\ alerts = <<>>
    /\ nextDealId = 1 /\ nextEventId = 1
    /\ runs = [r \in Runs |-> ClosedSession]
    /\ InitIngestFetch
    /\ text = <<>> /\ normalized = <<"none">> /\ merge_returned = "none"
    /\ banks = SeedBanks
    /\ bank_cache = <<>>
    /\ link_returned = NoCall

\* resolver.resolve(bank_name_raw)
Resolve(bank_name_raw) ==
    LET r == resolve(banks, bank_cache, bank_name_raw) IN
    /\ bank_cache' = r.cache
    /\ link_returned' = [call |-> "resolve", name |-> bank_name_raw,
                         bank_id |-> r.bank_id, raised |-> ""]
    /\ UNCHANGED <<banks, storeVars, ingestVars, fetchVars, textVars, merge_returned>>

\* resolver.resolve_and_link(bank_name_raw, auto_create); banks.name is unique,
\* so the flush of a second bank of the same name raises
ResolveAndLink(bank_name_raw, auto_create) ==
    LET r == resolve(banks, bank_cache, bank_name_raw)
        returned(id, exc) == [call |-> "resolve_and_link", name |-> bank_name_raw,
                              bank_id |-> id, raised |-> exc]
    IN
    /\ bank_cache' = r.cache
    /\ IF r.bank_id # 0
       THEN banks' = banks /\ link_returned' = returned(r.bank_id, "")
       ELSE IF ~auto_create
       THEN banks' = banks /\ link_returned' = returned(0, "")
       ELSE IF \E k \in 1..Len(banks) : banks[k].name = bank_name_raw
       THEN banks' = banks /\ link_returned' = returned(0, "IntegrityError")
       ELSE /\ banks' = Append(banks, [name |-> bank_name_raw,
                                       name_normalized |-> _normalize(bank_name_raw)])
            /\ link_returned' = returned(Len(banks) + 1, "")
    /\ UNCHANGED <<storeVars, ingestVars, fetchVars, textVars, merge_returned>>

ResolveName == \E n \in RawNames : Resolve(n)

ResolveAndLinkName == \E n \in RawNames, a \in BOOLEAN : ResolveAndLink(n, a)

NextBanks == ResolveName \/ ResolveAndLinkName

SpecBanks == InitBanks /\ [][NextBanks]_vars

\* ------------------------------------------- concurrent clustering runs
\* Each run works in its own session and transaction (READ COMMITTED):
\* mem is the identity map (fact id -> deal_id as the session holds it),
\* dirty the facts with a pending UPDATE, pend the deals inserted by flush()
\* and not yet committed.

\* the party and date facts of one merger agreement exhibit
ExhibitFacts == {c \in Catalogue : c.exhibit_id = 1}

RECURSIVE Stores(_)
Stores(n) ==
    IF n = 0 THEN {<<>>}
    ELSE LET shorter == Stores(n - 1)
             longest == {x \in shorter : Len(x) = n - 1}
         IN  shorter \cup UNION {{Append(s, c @@ [deal_id |-> 0]) :
                                      c \in {x \in ExhibitFacts : NotIngested(s, x)}} :
                                  s \in longest}

InitConc ==
    /\ facts \in Stores(MaxConcFacts)
    /\ deals = <<>>
    /\ events = <<>>
    /\ alerts = <<>>
    /\ nextDealId = 1
    /\ nextEventId = 1
    /\ runs = [r \in Runs |-> ClosedSession]
    /\ InitIngestFetch
    /\ InitHelpers

\* the facts as the session of run r holds them
SessionFacts(r) ==
    [j \in DOMAIN facts |->
        IF j \in DOMAIN runs[r].mem
        THEN [facts[j] EXCEPT !.deal_id = runs[r].mem[j]] ELSE facts[j]]

\* the deal rows a query of run r returns
VisibleDeals(r) == runs[r].pend @@ deals

\* the facts a handler call for fact i brings into the identity map
LoadedBy(f, i) ==
    {i} \cup Range(find_related_party_facts(f, i, TargetLabels \cup AcquirerLabels))

\* `unclustered = self.db.query(AtomicFact).filter(deal_id IS NULL, ...).all()`
BeginRun(r) ==
    /\ runs[r].pc = "idle"
    /\ LET unclustered == UnclusteredOf(facts, PartyTypes)
       IN  runs' = [runs EXCEPT ![r] = [ClosedSession EXCEPT
                        !.pc = "primary",
                        !.todo = Rows(unclustered),
                        !.mem = [j \in unclustered |-> 0]]]
    /\ UNCHANGED <<facts, deals, events, alerts, nextDealId, nextEventId, ingestVars, fetchVars, helperVars>>

\* one iteration of `for fact in unclustered: self._cluster_fact(fact)`
ClusterFactStep(r) ==
    /\ runs[r].pc = "primary"
    /\ runs[r].todo # <<>>
    /\ LET i == Head(runs[r].todo)
           st0 == [f |-> SessionFacts(r), d |-> VisibleDeals(r),
                   a |-> runs[r].new_alerts, n |-> nextDealId]
           st1 == cluster_fact(st0, i)
           created == DOMAIN st1.d \ DOMAIN st0.d
           held == UNION {{runs[q].pend[k].deal_key : k \in DOMAIN runs[q].pend} :
                              q \in Runs \ {r}}
           loaded == DOMAIN runs[r].mem \cup
                     (IF st0.f[i].name # "" /\ st0.f[i].role \in TargetLabels \cup AcquirerLabels
                      THEN LoadedBy(st0.f, i) ELSE {})
       IN  IF \E k \in created : st1.d[k].deal_key \in held
           THEN \* the INSERT waits for the transaction that holds the key
                /\ runs' = [runs EXCEPT ![r].pc = "blocked",
                                        ![r].wait = (CHOOSE k \in created : TRUE)
                                                        :> st1.d[CHOOSE k \in created : TRUE]]
                /\ nextDealId' = st1.n
           ELSE /\ runs' = [runs EXCEPT
                        ![r].todo = Tail(@),
                        ![r].mem = [j \in loaded |-> st1.f[j].deal_id],
                        ![r].dirty = @ \cup {j \in loaded : st1.f[j].deal_id # st0.f[j].deal_id},
                        ![r].pend = [k \in created |-> st1.d[k]] @@ @,
                        ![r].new_alerts = st1.a]
                /\ nextDealId' = st1.n
    /\ UNCHANGED <<facts, deals, events, alerts, nextEventId, ingestVars, fetchVars, helperVars>>

\* the transaction holding the key has ended: the waiting INSERT raises
\* IntegrityError (unique index on deal_key) when the key was committed,
\* nothing catches it and the session is rolled back by db.close()
InsertResolves(r) ==
    /\ runs[r].pc = "blocked"
    /\ LET row == runs[r].wait[CHOOSE k \in DOMAIN runs[r].wait : TRUE]
       IN  /\ \A q \in Runs \ {r} :
                \A k \in DOMAIN runs[q].pend : runs[q].pend[k].deal_key # row.deal_key
           /\ IF \E k \in DOMAIN deals : deals[k].deal_key = row.deal_key
              THEN runs' = [runs EXCEPT ![r] = [ClosedSession EXCEPT !.pc = "failed"]]
              ELSE runs' = [runs EXCEPT ![r].pc = "primary", ![r].wait = <<>>]
    /\ UNCHANGED <<facts, deals, events, alerts, nextDealId, nextEventId, ingestVars, fetchVars, helperVars>>

\* `self.db.commit()` after the primary pass
CommitPrimary(r) ==
    /\ runs[r].pc = "primary"
    /\ runs[r].todo = <<>>
    /\ facts' = [j \in DOMAIN facts |->
                    IF j \in runs[r].dirty
                    THEN [facts[j] EXCEPT !.deal_id = runs[r].mem[j]] ELSE facts[j]]
    /\ deals' = runs[r].pend @@ deals
    /\ alerts' = alerts \o runs[r].new_alerts
    /\ runs' = [runs EXCEPT ![r] = [ClosedSession EXCEPT !.pc = "secondary"]]
    /\ UNCHANGED <<events, nextDealId, nextEventId, ingestVars, fetchVars, helperVars>>

\* `self._attach_secondary_facts()` with its commit
SecondaryPass(r) ==
    /\ runs[r].pc = "secondary"
    /\ LET st0 == [f |-> facts, d |-> deals, a |-> alerts, n |-> nextDealId]
           st1 == attach_secondary_facts(st0, Rows(UnclusteredOf(facts, SecondaryTypes)))
       IN  /\ facts' = st1.f
           /\ deals' = st1.d
    /\ runs' = [runs EXCEPT ![r].pc = "done"]
    /\ UNCHANGED <<events, alerts, nextDealId, nextEventId, ingestVars, fetchVars, helperVars>>

\* `finally: db.close()`, after which the process may run again
CloseSession(r) ==
    /\ runs[r].pc \in {"done", "failed"}
    /\ \E j \in DOMAIN facts : facts[j].deal_id = 0
    /\ runs' = [runs EXCEPT ![r] = ClosedSession]
    /\ UNCHANGED <<facts, deals, events, alerts, nextDealId, nextEventId, ingestVars, fetchVars, helperVars>>

NextConc ==
    \E r \in Runs :
        \/ BeginRun(r)
        \/ ClusterFactStep(r)
        \/ InsertResolves(r)
        \/ CommitPrimary(r)
        \/ SecondaryPass(r)
        \/ CloseSession(r)

SpecConc == InitConc /\ [][NextConc]_vars

\* ------------------------------------------------------ kinds of steps
\* What a step did tells which operation took it: only ingestion adds a
\* fact, only merge_deals deletes a deal, nothing in the pipeline sets
\* LOCKED, and every effect of reconcile_financing comes with a new event.
FactIngested == Len(facts') = Len(facts) + 1

DealDeleted == \E k \in DOMAIN deals : k \notin DOMAIN deals'

DealLocked ==
    \E k \in DOMAIN deals \cap DOMAIN deals' :
        deals[k].state # "LOCKED" /\ deals'[k].state = "LOCKED"

EventCreated == DOMAIN events' # DOMAIN events

PipelineStep == ~FactIngested /\ ~DealDeleted /\ ~DealLocked

ClusterStep == PipelineStep /\ ~EventCreated

\* ===================================================================== C1
\* the key _handle_target_fact computes for party fact i, <<>> when it
\* returns before computing one
TargetKey(f, i) ==
    IF f[i].name = "" \/ f[i].role \notin TargetLabels THEN <<>>
    ELSE LET acquirer_facts == find_related_party_facts(f, i, AcquirerLabels)
         IN  IF acquirer_facts = <<>> THEN <<>>
             ELSE build_deal_key(f[acquirer_facts[1]].cik, f[acquirer_facts[1]].name,
                                 f[i].cik, f[i].name)

C1_UniqueDealKey ==
    \A a, b \in DOMAIN deals : deals[a].deal_key = deals[b].deal_key => a = b

C1_AttachedToExisting ==
    \A i \in DOMAIN facts :
        (/\ facts[i].fact_type \in PartyTypes
         /\ facts[i].deal_id = 0
         /\ TargetKey(facts, i) # <<>>
         /\ \E k \in DOMAIN deals : deals[k].deal_key = TargetKey(facts, i))
        => /\ \E k \in DOMAIN deals : /\ deals[k].deal_key = TargetKey(facts, i)
                                      /\ facts'[i].deal_id = k
           /\ \A k \in DOMAIN deals' \ DOMAIN deals :
                  deals'[k].deal_key # TargetKey(facts, i)

\* C1: after any number of sequential clustering runs no two deals carry the
\* same deal_key; a run attaches an unclustered target fact whose key is the
\* key of an existing deal to that deal and creates no deal for it.
C1_Theorem ==
    /\ []C1_UniqueDealKey
    /\ [][ClusterStep => C1_AttachedToExisting]_vars

\* two target facts with the same key are attached to the one deal of that key
C1_Witness ==
    \E i, j \in DOMAIN facts :
        /\ i < j
        /\ facts[i].role \in TargetLabels /\ facts[j].role \in TargetLabels
        /\ facts[i].deal_id # 0 /\ facts[i].deal_id = facts[j].deal_id
        /\ TargetKey(facts, i) = TargetKey(facts, j)
        /\ deals[facts[i].deal_id].deal_key = TargetKey(facts, i)
        /\ Cardinality(DOMAIN deals) = 1

\* ===================================================================== C2
C2_StoredWriteOnce ==
    \A j \in DOMAIN facts :
        facts[j].deal_id # 0 => facts'[j].deal_id = facts[j].deal_id

C2_AssignedOnlyWhenNull ==
    \A r \in Runs :
        \A j \in DOMAIN runs[r].mem \cap DOMAIN runs'[r].mem :
            runs[r].mem[j] # 0 => runs'[r].mem[j] = runs[r].mem[j]

\* C2: a clustering run, alone or beside another one, never changes a
\* non-null deal_id of a fact, neither in the store nor in an assignment it
\* makes within its transaction.
C2_WriteOnce ==
    [][C2_StoredWriteOnce /\ C2_AssignedOnlyWhenNull]_vars

\* ===================================================================== C3
AttachedFacts(f, k) == {i \in DOMAIN f : f[i].deal_id = k}
AttachedEvents(e, k) == {x \in DOMAIN e : e[x].deal_id = k}

\* C3: a pipeline stage leaves a LOCKED deal, the facts attached to it and
\* its financing events as they are.
C3_LockedIsTerminal ==
    [][PipelineStep =>
        \A k \in DOMAIN deals :
            deals[k].state = "LOCKED" =>
                /\ k \in DOMAIN deals'
                /\ deals'[k] = deals[k]
                /\ AttachedFacts(facts', k) = AttachedFacts(facts, k)
                /\ AttachedEvents(events', k) = AttachedEvents(events, k)]_vars

\* ===================================================================== C4
NameOnlyTier(key) == key # <<>> /\ key[1] = "name"

\* C4: a deal the clusterer creates is in state NEEDS_REVIEW exactly when its
\* key is of the name-only tier, and in state CANDIDATE when its key starts
\* with cik:.
C4_Theorem ==
    [][\A k \in DOMAIN deals' \ DOMAIN deals :
          /\ deals'[k].state = "NEEDS_REVIEW" <=> NameOnlyTier(deals'[k].deal_key)
          /\ deals'[k].deal_key[1] = "cik" => deals'[k].state = "CANDIDATE"]_vars

\* the newest deal was created under a cik: key, from an acquirer fact that
\* carries a CIK, and is a CANDIDATE
C4_Witness ==
    \E k \in DOMAIN deals :
        /\ k = nextDealId - 1
        /\ deals[k].deal_key[1] = "cik"
        /\ deals[k].acquirer_cik # ""
        /\ deals[k].state = "CANDIDATE"

\* ===================================================================== C5
\* C5: extraction emits facts with deal_id NULL and leaves deals alone;
\* afterwards a fact's deal_id is assigned only by the Deal Clusterer, never
\* by a reconciliation run.
C5_OnlyClustererAssigns ==
    [][/\ FactIngested =>
            /\ deals' = deals
            /\ facts'[Len(facts')].deal_id = 0
            /\ \A i \in DOMAIN facts : facts'[i] = facts[i]
       /\ EventCreated =>
            \A i \in DOMAIN facts : facts'[i].deal_id = facts[i].deal_id]_vars

\* ===================================================================== C6
\* C6: every fact with a deal has the (filing_id, exhibit_id) of some party
\* fact attached to the same deal.
C6_ProvenanceLocality ==
    \A i \in DOMAIN facts :
        facts[i].deal_id # 0 =>
            \E j \in DOMAIN facts :
                /\ facts[j].fact_type \in PartyTypes
                /\ facts[j].deal_id = facts[i].deal_id
                /\ facts[j].filing_id = facts[i].filing_id
                /\ facts[j].exhibit_id = facts[i].exhibit_id

\* ===================================================================== C7
\* deals of the attached party facts of fact i's own exhibit or, when that
\* exhibit holds no party facts, of its filing
ProvenanceDeals(f, i) ==
    LET own == {j \in DOMAIN f : /\ f[j].fact_type \in PartyTypes
                                 /\ f[i].exhibit_id # 0
                                 /\ f[j].exhibit_id = f[i].exhibit_id}
        filing == {j \in DOMAIN f : /\ f[j].fact_type \in PartyTypes
                                    /\ f[j].filing_id = f[i].filing_id}
        from == IF own # {} THEN own ELSE filing
    IN  {f[j].deal_id : j \in {x \in from : f[x].deal_id # 0}}

\* C7: one clustering run attaches every unclustered secondary fact to the
\* deal of the party facts of its exhibit or else of its filing, and a deal
\* that received a sponsor fact is sponsor-backed.
C7_SecondaryAttached ==
    [][ClusterStep =>
        \A i \in DOMAIN facts :
            (/\ facts[i].fact_type \in SecondaryTypes
             /\ facts[i].deal_id = 0
             /\ ProvenanceDeals(facts', i) # {})
            => /\ facts'[i].deal_id \in ProvenanceDeals(facts', i)
               /\ facts[i].fact_type = "SPONSOR_MENTION" =>
                    deals'[facts'[i].deal_id].is_sponsor_backed = "TRUE"]_vars

\* ===================================================================== C8
\* C8: of two runs racing on one new deal_key one creates the deal, the other
\* attaches to it, the key stays unique and neither run ends with an error.
C8_RacingRunsSucceed ==
    /\ \A a, b \in DOMAIN deals : deals[a].deal_key = deals[b].deal_key => a = b
    /\ \A r \in Runs : runs[r].pc # "failed"

\* ===================================================================== C9
\* C9: no fact id is a source of two financing events, and every financing
\* event has a source fact.
C9_Theorem ==
    /\ \A x, y \in DOMAIN events :
          x # y => Range(events[x].source_fact_ids) \cap Range(events[y].source_fact_ids) = {}
    /\ \A x \in DOMAIN events : events[x].source_fact_ids # <<>>

\* a financing event and its source fact sit on a deal that absorbed another
\* deal in a merge
C9_Witness ==
    \E x \in DOMAIN events, k \in DOMAIN alerts :
        /\ alerts[k].alert_type = "DEAL_MERGE_CANDIDATE"
        /\ events[x].deal_id = alerts[k].deal_id
        /\ facts[events[x].source_fact_ids[1]].deal_id = alerts[k].deal_id

\* ==================================================================== C10
CanonicalRoles ==
    {S_bookrunner, S_joint_bookrunner, S_co_manager, S_lead_underwriter,
     S_underwriter, S_lead_arranger, S_joint_lead_arranger, S_arranger,
     S_admin_agent, S_syndication_agent, S_agent, S_other}

\* C10: every participant's role_normalized is in the canonical vocabulary.
C10_CanonicalRole ==
    \A x \in DOMAIN events :
        \A k \in DOMAIN events[x].participants :
            events[x].participants[k].role_normalized \in CanonicalRoles

\* ------------------------------------------------------------ attribution
RECURSIVE SumParticipantFees(_)
SumParticipantFees(ps) ==
    IF ps = <<>> THEN 0
    ELSE Head(ps).estimated_fee_usd + SumParticipantFees(Tail(ps))

\* C11: once the attribution stage has given an event a non-zero estimated
\* fee, the estimated fees of the event's participants add up to that fee.
C11_AttributionConservation ==
    \A x \in DOMAIN events :
        events[x].estimated_fee_usd # 0 =>
            SumParticipantFees(events[x].participants) = events[x].estimated_fee_usd

\* ------------------------------------------------- unlinked reconciliation
MatchCandidates == {k \in DOMAIN deals : deals[k].state \in {"CANDIDATE", "OPEN"}}

\* the best score any CANDIDATE/OPEN deal reaches for fact i (0 without deals)
BestScore(i) ==
    IF MatchCandidates = {} THEN 0
    ELSE LET k == CHOOSE k \in MatchCandidates :
                    \A j \in MatchCandidates :
                        score_deal_match(deals[j], facts[i].evidence)
                            <= score_deal_match(deals[k], facts[i].evidence)
         IN  score_deal_match(deals[k], facts[i].evidence)

\* the events of e that are not in the store yet and list fact i as a source
NewEventsFor(e, i) ==
    {x \in DOMAIN e \ DOMAIN events : i \in Range(e[x].source_fact_ids)}

\* what a reconciliation started in this state does to the unlinked facts
C12_UnlinkedOutcome ==
    LET st == reconcile_financing
        unlinked == Range(UnlinkedFinancing(facts))
    IN  /\ \A i \in unlinked :
            IF BestScore(i) >= MinConfidence
            THEN /\ st.f[i].deal_id \in MatchCandidates
                 /\ score_deal_match(deals[st.f[i].deal_id], facts[i].evidence) = BestScore(i)
                 /\ Cardinality(NewEventsFor(st.e, i)) = 1
                 /\ \A x \in NewEventsFor(st.e, i) :
                        /\ st.e[x].deal_id = st.f[i].deal_id
                        /\ st.e[x].reconciliation_confidence = BestScore(i)
            ELSE /\ st.f[i].deal_id = 0
                 /\ NewEventsFor(st.e, i) = {}
        /\ st.low_confidence_skipped =
               Cardinality({i \in unlinked : BestScore(i) < MinConfidence})

\* a step that creates events leaves every unlinked fact as stated
C12_UnlinkedStep ==
    \A i \in Range(UnlinkedFinancing(facts)) :
        IF BestScore(i) >= MinConfidence
        THEN /\ facts'[i].deal_id \in MatchCandidates
             /\ score_deal_match(deals[facts'[i].deal_id], facts[i].evidence) = BestScore(i)
             /\ Cardinality(NewEventsFor(events', i)) = 1
        ELSE /\ facts'[i].deal_id = 0
             /\ NewEventsFor(events', i) = {}

PriorityTag(e, k) ==
    LET evs == {x \in DOMAIN e : e[x].deal_id = k /\ e[x].market_tag # ""}
        tags == {e[x].market_tag : x \in evs}
    IN  IF "Term_Loan_B" \in tags THEN "Term_Loan_B"
        ELSE IF "HY_Bond" \in tags THEN "HY_Bond"
        ELSE IF "Bridge" \in tags THEN "Bridge"
        ELSE IF "IG_Bond" \in tags THEN "IG_Bond"
        ELSE IF evs # {} THEN e[CHOOSE x \in evs : \A y \in evs : x <= y].market_tag
        ELSE ""

\* C13: when a pipeline run completes, every deal with at least one financing
\* event carries the tag of highest priority among its events' tags.
C13_DealMarketTag ==
    [][PipelineStep =>
         \A k \in DOMAIN deals' :
             (\E x \in DOMAIN events' : events'[x].deal_id = k) =>
                 deals'[k].market_tag = PriorityTag(events', k)]_vars

\* C14: classify_deal runs on the deals without a market tag; after it has
\* run on a deal that has a sponsor fact attached, or an event already tagged
\* HY_Bond or Term_Loan_B, the deal's is_sponsor_backed is true.
C14_SponsorBacked ==
    [][PipelineStep =>
         \A k \in DOMAIN deals \cap DOMAIN deals' :
             /\ deals[k].market_tag = ""
             /\ \/ \E i \in DOMAIN facts' : /\ facts'[i].fact_type = "SPONSOR_MENTION"
                                            /\ facts'[i].deal_id = k
                \/ \E x \in DOMAIN events : /\ events[x].deal_id = k
                                            /\ events[x].market_tag \in {"HY_Bond", "Term_Loan_B"}
             => deals'[k].is_sponsor_backed = "TRUE"]_vars

\* ==================================================================== C15
\* filing 1 of the registry is ingested in full (its merger agreement names
\* Parent, Merger Sub and Company and carries the agreement date) and
\* nothing is clustered yet
AgreementIngested ==
    /\ deals = <<>>
    /\ Len(facts) = 4
    /\ \E k \in DOMAIN filings :
        /\ filings[k].accession = 1 /\ filings[k].processed
        /\ \A i \in DOMAIN facts : facts[i].filing_id = k /\ facts[i].deal_id = 0

AgreementDeal(d) ==
    /\ d.acquirer_name_normalized = "alpha"
    /\ d.target_name_normalized = "target"
    /\ d.agreement_date = "2024-01-15"

\* C15: clustering the facts of one ingested merger agreement yields exactly
\* one deal, in state CANDIDATE, with acquirer and target from the Parent
\* and Company facts and the agreement date of the exhibit
C15_OneCandidateDeal ==
    [][AgreementIngested /\ deals' # deals =>
          /\ Cardinality(DOMAIN deals') = 1
          /\ \A k \in DOMAIN deals' :
                deals'[k].state = "CANDIDATE" /\ AgreementDeal(deals'[k])]_vars

\* ==================================================================== C16
\* the step stored a manual input
ManualInputStored == Len(manual_inputs') = Len(manual_inputs) + 1

\* C16: a successful submit_manual_input persists one ManualInput, adds one
\* atomic fact of type MANUAL for it, and marks the alert resolved
C16_ManualFact ==
    [][ManualInputStored =>
          LET mi == manual_inputs'[Len(manual_inputs')]
          IN  /\ mi.alert_id \in DOMAIN alerts
              /\ alerts'[mi.alert_id].is_resolved
              /\ Len(facts') = Len(facts) + 1
              /\ facts'[Len(facts')].fact_type = "MANUAL"
              /\ facts'[Len(facts')].deal_id = mi.deal_id]_vars

\* the parts of C16 submit_manual_input does: one ManualInput for an
\* existing alert, which is resolved by the same step
C16_InputAndResolution ==
    [][ManualInputStored =>
          LET mi == manual_inputs'[Len(manual_inputs')]
          IN  /\ mi.alert_id \in DOMAIN alerts
              /\ alerts'[mi.alert_id].is_resolved
              /\ mi.deal_id = alerts[mi.alert_id].deal_id]_vars

\* ==================================================================== C17
\* a stored fact as extraction emitted it
AsExtracted(f) == [x \in DOMAIN f \ {"deal_id"} |-> f[x]]

StoredFacts(k) ==
    LET own == SelectSeq(facts, LAMBDA f : f.filing_id = k)
    IN  [i \in DOMAIN own |-> AsExtracted(own[i])]

StoredExtractionAlerts(k) ==
    SelectSeq(alerts, LAMBDA a : a.filing_id = k
                                 /\ a.alert_type = "FAILED_PRIVATE_TARGET_EXTRACTION")

\* the store holds filing k together with all its facts and alerts
FilingComplete(k) ==
    LET result == extract_from_filing(filings, exhibits, k)
    IN  /\ filings[k].processed
        /\ StoredFacts(k) = result.facts
        /\ Len(StoredExtractionAlerts(k)) = Len(result.alerts)

\* C17: once the ingestion task has ended, however it ended, every filing in
\* the store is there together with its complete fact and alert set
C17_FilingUnit ==
    task.pc = "done" => \A k \in DOMAIN filings : FilingComplete(k)

\* what does hold: a task that ran to its end leaves only complete filings
\* behind, unless an earlier task left an incomplete one
C17_CompletedRun ==
    [][task'.pc = "done" /\ task'.result = "ok"
       /\ (\A k \in DOMAIN filings : filings[k].processed)
       => \A k \in DOMAIN filings' : FilingComplete(k)']_vars

\* ==================================================================== C18
\* the step sent a request and the request ended in Blocked
FetchBlocked ==
    /\ Len(requests') = Len(requests) + 1
    /\ requests'[Len(requests')].outcome = "blocked"

\* C18: a fetch of the ingestion task that ends in Blocked ends the task,
\* which returns the Blocked error to its caller
C18_BlockedIsFatal ==
    [][FetchBlocked => task'.pc = "done" /\ task'.result = "Blocked"]_vars

\* what does hold: Blocked on the filing list ends the task with Blocked
C18_BlockedList ==
    [][FetchBlocked /\ requests'[Len(requests')].doc[1] = "list"
       => task'.pc = "done" /\ task'.result = "Blocked"]_vars

\* ==================================================================== C19
\* the step is thread t's attempt being answered with status
Answered(t, status) ==
    /\ threads[t].pc = "send"
    /\ Len(sent') = Len(sent) + 1
    /\ threads'[t] = Respond(threads[t], status)

\* C19: a fetch makes at most 5 attempts; 429 or 403 on one of the first
\* four is followed by a wait and another attempt; 200 returns the content;
\* 403 on the fifth attempt surfaces as Blocked
C19_FetchAttempts ==
    [][\A t \in Threads, status \in Statuses :
          Answered(t, status) =>
              /\ threads[t].attempt <= MaxAttempts
              /\ (status \in {429, 403} /\ threads[t].attempt < MaxAttempts
                    => threads'[t].pc = "backoff")
              /\ (status = 200 => threads'[t].result = "content")
              /\ (status = 403 /\ threads[t].attempt = MaxAttempts
                    => threads'[t].result = "Blocked")]_vars

\* what does hold: at most 5 attempts, only 429 is retried, 200 returns the
\* content and 403 surfaces as Blocked on whichever attempt it arrives
C19_ThrottleRetried ==
    [][\A t \in Threads, status \in Statuses :
          Answered(t, status) =>
              /\ threads[t].attempt <= MaxAttempts
              /\ (status = 429 /\ threads[t].attempt < MaxAttempts
                    => /\ threads'[t].pc = "backoff"
                       /\ threads'[t].wake - clock \in {2, 4, 8})
              /\ (status = 200 => threads'[t].result = "content")
              /\ (status = 403 => threads'[t].result = "Blocked")]_vars

\* a fifth attempt is made
FifthAttempt == \E t \in Threads : threads[t].pc = "send" /\ threads[t].attempt = MaxAttempts

\* ==================================================================== C20
\* requests sent in the window that begins with request i
InWindow(i) ==
    {j \in DOMAIN sent : sent[i] <= sent[j] /\ sent[j] < sent[i] + RateLimitWindow}

\* C20: no window of rate_limit_window seconds holds more than
\* rate_limit_requests requests, whatever number of threads fetch
C20_RateLimit ==
    \A i \in DOMAIN sent : Cardinality(InWindow(i)) <= RateLimitRequests

\* what does hold: a cache hit sends nothing and records no request time
C20_CacheHit ==
    [][\A t \in Threads :
          threads[t].pc = "start" /\ threads[t].url \in cache /\ threads'[t] # threads[t]
          => /\ threads'[t].result = "content"
             /\ UNCHANGED <<sent, request_times>>]_vars

\* ==================================================================== C21
FieldsNeeded == <<"facility_type", "amount", "participants", "roles", "purpose">>

\* an UNPARSED_MATERIAL_EXHIBIT alert with the fields-needed hint refers to
\* exhibit x
UnparsedAlertFor(x) ==
    \E i \in DOMAIN alerts :
        /\ alerts[i].alert_type = "UNPARSED_MATERIAL_EXHIBIT"
        /\ alerts[i].exhibit_id = x
        /\ alerts[i].fields_needed = FieldsNeeded

\* C21: a stored exhibit without text is tagged failed, and when it is
\* material and its filing has been processed an UnparsedMaterialExhibit
\* alert with the fields-needed hint refers to it
C21_UnparsedMaterial ==
    \A x \in DOMAIN exhibits :
        ~exhibits[x].has_text =>
            /\ exhibits[x].extraction_quality = "failed"
            /\ (exhibits[x].is_material /\ filings[exhibits[x].filing_id].processed
                    => UnparsedAlertFor(x))

\* what does hold: an HTML exhibit whose fetch failed is tagged failed
C21_FailedFetchTagged ==
    \A x \in DOMAIN exhibits :
        ~exhibits[x].has_text /\ ~exhibits[x].is_pdf
            => exhibits[x].extraction_quality = "failed"

\* a material HTML exhibit without text, tagged failed, in a processed
\* filing with no alert for it
MaterialWithoutAlert ==
    \E x \in DOMAIN exhibits :
        /\ ~exhibits[x].has_text /\ exhibits[x].is_material
        /\ exhibits[x].extraction_quality = "failed"
        /\ filings[exhibits[x].filing_id].processed
        /\ ~UnparsedAlertFor(x)

\* ==================================================================== C22
\* C22: normalizing a normalized text gives the same text
C22_Idempotent ==
    [][normalized # Unnormalized => normalized' = normalized]_vars

\* what does hold: a normalized text has no blank next to a newline, no tab,
\* no no-break space, and no whitespace at either end
C22_NormalForm ==
    normalized # Unnormalized =>
        /\ \A i \in DOMAIN normalized : normalized[i] \notin {"TAB", "NBSP"}
        /\ \A i \in 1..(Len(normalized) - 1) :
              {normalized[i], normalized[i + 1]} # {"SP", "NL"}
              /\ {normalized[i], normalized[i + 1]} # {"SP"}
        /\ (normalized # <<>> =>
              normalized[1] = "a" /\ normalized[Len(normalized)] = "a")

\* ==================================================================== C23
\* the facts and the events attached to deal k
FactsAt(k) == {i \in DOMAIN facts : facts[i].deal_id = k}
EventsAt(k) == {x \in DOMAIN events : events[x].deal_id = k}

\* what merging s into t is said to do
MergeEffect(s, t) ==
    /\ \A i \in FactsAt(s) \cup FactsAt(t) : facts'[i].deal_id = t
    /\ \A x \in EventsAt(s) \cup EventsAt(t) :
          x \in DOMAIN events' /\ events'[x].deal_id = t
    /\ s \notin DOMAIN deals'
    /\ t \in DOMAIN deals'
    /\ Len(alerts') = Len(alerts) + 1
    /\ alerts'[Len(alerts')].alert_type = "DEAL_MERGE_CANDIDATE"
    /\ alerts'[Len(alerts')].is_resolved
    /\ alerts'[Len(alerts')].resolution_notes = deals[s].deal_key
    /\ \A k \in DOMAIN alerts : alerts'[k] = alerts[k]

\* C23: merging two distinct existing deals s and t leaves every fact and
\* event of s or of t attached to t, removes s and adds exactly one resolved
\* DealMergeCandidate alert holding the deal_key of s; when s or t does not
\* exist the call returns False and changes nothing
C23_Merge ==
    [][\A s, t \in 1..nextDealId :
          merge_deals(s, t) =>
              IF s \in DOMAIN deals /\ t \in DOMAIN deals
              THEN s # t => MergeEffect(s, t)
              ELSE merge_returned' = "False"
                   /\ UNCHANGED <<facts, deals, events, alerts>>]_vars

\* what does hold: the same, for a source deal that no alert refers to
C23_MergeUnreferenced ==
    [][\A s, t \in 1..nextDealId :
          merge_deals(s, t) =>
              IF s \in DOMAIN deals /\ t \in DOMAIN deals
              THEN s # t /\ ~MergeViolatesForeignKey(s, t) => MergeEffect(s, t)
              ELSE merge_returned' = "False"
                   /\ UNCHANGED <<facts, deals, events, alerts>>]_vars

\* a merge of a source deal with a fact and an event went through
C23_Merged ==
    /\ merge_returned = "True"
    /\ \E k \in DOMAIN alerts, d \in DOMAIN deals :
          /\ alerts[k].alert_type = "DEAL_MERGE_CANDIDATE"
          /\ alerts[k].deal_id = d
          /\ Cardinality(FactsAt(d)) >= 2
          /\ EventsAt(d) # {}

\* ==================================================================== C28
\* C28: a call of merge_deals leaves every fact and every financing event
\* that was attached to a deal attached to a deal that still exists, and a
\* call with source equal to target leaves the deal, its facts and its events
\* in place
C28_NoDataLost ==
    [][\A s, t \in 1..nextDealId :
          merge_deals(s, t) =>
              /\ \A i \in DOMAIN facts :
                    facts[i].deal_id \in DOMAIN deals =>
                        facts'[i].deal_id \in DOMAIN deals'
              /\ \A x \in DOMAIN events :
                    events[x].deal_id \in DOMAIN deals =>
                        x \in DOMAIN events' /\ events'[x].deal_id \in DOMAIN deals'
              /\ (s = t /\ s \in DOMAIN deals =>
                    UNCHANGED <<deals, facts, events>>)]_vars

\* a deal with a fact and an event was merged into itself: no alert refers
\* to a deal, so the call that ended in an error had source equal to target
C28_SelfMerge ==
    /\ merge_returned = "IntegrityError"
    /\ \A k \in DOMAIN alerts : alerts[k].deal_id \notin DOMAIN deals
    /\ \E d \in DOMAIN deals : FactsAt(d) # {} /\ EventsAt(d) # {}

\* ==================================================================== C24
\* the pattern groups that match the evidence of the event's source facts
IndicatorsOf(ev) ==
    UNION {facts[i].indicators : i \in Range(ev.source_fact_ids) \cap DOMAIN facts}

\* the tag of the first rule that applies, in the stated order
RuleTag(ind, family, sponsored) ==
    IF "bridge" \in ind THEN "Bridge"
    ELSE IF "tlb" \in ind THEN "Term_Loan_B"
    ELSE IF "rcf" \in ind THEN "Other_Loan"
    ELSE IF family = "bond"
    THEN IF "hy" \in ind /\ "ig" \notin ind THEN "HY_Bond"
         ELSE IF "ig" \in ind THEN "IG_Bond"
         ELSE IF sponsored THEN "HY_Bond" ELSE "IG_Bond"
    ELSE IF family = "loan"
    THEN IF "hy" \in ind \/ "tlb" \in ind THEN "Term_Loan_B" ELSE "Other_Loan"
    ELSE "Unknown"

\* C24: classify_financing_event gives the event the market tag of the first
\* rule that applies (bridge, TLB, RCF, family bond, family loan, Unknown),
\* and the TLB and RCF rules set the family to loan
C24_Theorem ==
    [][\A x \in DOMAIN events :
          LET ind == IndicatorsOf(events[x])
          IN  /\ events'[x].market_tag =
                    RuleTag(ind, events[x].instrument_family,
                            deals[events[x].deal_id].is_sponsor_backed = "TRUE")
              /\ ("bridge" \notin ind /\ ({"tlb", "rcf"} \cap ind # {}) =>
                    events'[x].instrument_family = "loan")]_vars

\* a bond without HY or IG evidence on a sponsor-backed deal was tagged by
\* the sponsor default
C24_Witness ==
    \E x \in DOMAIN events :
        /\ events[x].market_tag = "HY_Bond"
        /\ events[x].instrument_family = "bond"
        /\ IndicatorsOf(events[x]) = {}
        /\ deals[events[x].deal_id].is_sponsor_backed = "TRUE"

\* ==================================================================== C25
\* the weight of a role as stated: its entry, or the entry of 'other'
StatedWeight(splits, role_normalized) ==
    IF role_normalized \in DOMAIN splits THEN splits[role_normalized]
    ELSE splits[S_other]

RECURSIVE SumStatedWeights(_, _)
SumStatedWeights(splits, ps) ==
    IF ps = <<>> THEN 0
    ELSE StatedWeight(splits, Head(ps).role_normalized)
            + SumStatedWeights(splits, Tail(ps))

\* the fraction q equals a / b
IsFraction(q, a, b) == q.num * b = a * q.den /\ q.den # 0

\* C25: each participant gets fee * w_i / sum(w), w_i being the weight of
\* its role or of 'other'; fee / n each when the weights sum to 0; 5/6 and
\* 1/6 of the fee for the weights 1.0 and 0.2
C25_Theorem ==
    [][\A config \in RoleSplitConfigs, x \in DOMAIN events :
          LET ev == events[x]
              ps == ev.participants
              fee == event_fee(ev)
          IN  /\ CalculateEventFee(config, x)
              /\ ev.instrument_family \in DOMAIN config
              /\ \A k \in DOMAIN ps :
                    {ps[k].role_normalized, S_other}
                        \cap DOMAIN config[ev.instrument_family] # {}
              =>
              LET splits == config[ev.instrument_family]
                  w(k) == StatedWeight(splits, ps[k].role_normalized)
                  sum == SumStatedWeights(splits, ps)
                  share(k) == events'[x].participants[k].estimated_fee_usd
              IN  /\ \A k \in DOMAIN ps :
                        IF sum = 0 THEN IsFraction(share(k), fee, Len(ps))
                        ELSE IsFraction(share(k), fee * w(k), sum)
                  /\ (Len(ps) = 2 /\ w(1) = 10 /\ w(2) = 2 =>
                        /\ IsFraction(share(1), 5 * fee, 6)
                        /\ IsFraction(share(2), fee, 6))]_vars

\* a joint bookrunner (1.0) and a co-manager (0.2) share a fee 5/6 to 1/6
C25_Witness ==
    \E x \in DOMAIN events :
        LET ps == events[x].participants
        IN  /\ Len(ps) = 2
            /\ ps[1].role_normalized = S_joint_bookrunner /\ ps[1].role_weight = 10
            /\ ps[2].role_normalized = S_co_manager /\ ps[2].role_weight = 2
            /\ events[x].estimated_fee_usd # 0
            /\ IsFraction(ps[1].estimated_fee_usd, 5 * events[x].estimated_fee_usd, 6)

\* the weights of an event summed to 0 and the fee was split evenly
C25_EvenSplit ==
    \E x \in DOMAIN events :
        LET ps == events[x].participants
        IN  /\ Len(ps) = 2
            /\ events[x].estimated_fee_usd # 0
            /\ \A k \in DOMAIN ps :
                  /\ ps[k].role_weight = 0
                  /\ IsFraction(ps[k].estimated_fee_usd, events[x].estimated_fee_usd, 2)

\* ==================================================================== C26
\* the stored alerts of failed party extractions, by preamble hash
FailedExtractionAlerts(h) ==
    {k \in DOMAIN alerts :
        /\ alerts[k].alert_type = "FAILED_PRIVATE_TARGET_EXTRACTION"
        /\ alerts[k].preamble_hash = h}

PreambleHashes ==
    UNION {{sha256(Registry[a].exhibits[x].preamble) :
               x \in {y \in DOMAIN Registry[a].exhibits :
                         Registry[a].exhibits[y].exhibit_type = "EX-2.1"}} :
           a \in DOMAIN Registry}

\* C26: at most one FailedPrivateTargetExtraction alert is stored per
\* preamble hash
C26_OnePerHash ==
    \A h \in PreambleHashes : Cardinality(FailedExtractionAlerts(h)) <= 1

\* what does hold: every failed extraction of a merger agreement that has
\* text stores one alert carrying the hash of its preamble
C26_AlertPerFailure ==
    \A x \in DOMAIN exhibits :
        LET doc == Registry[exhibits[x].accession].exhibits[exhibits[x].seq]
        IN  /\ exhibits[x].exhibit_type = "EX-2.1"
            /\ exhibits[x].has_text
            /\ doc.parties = <<>>
            /\ filings[exhibits[x].filing_id].processed
            => \E k \in FailedExtractionAlerts(sha256(doc.preamble)) :
                  alerts[k].filing_id = exhibits[x].filing_id

\* the agreement with the same preamble was extracted from two filings
C26_SamePreambleTwice ==
    \E x, y \in DOMAIN exhibits :
        /\ x # y
        /\ exhibits[x].exhibit_type = "EX-2.1" /\ exhibits[y].exhibit_type = "EX-2.1"
        /\ exhibits[x].has_text /\ exhibits[y].has_text
        /\ filings[exhibits[x].filing_id].processed
        /\ filings[exhibits[y].filing_id].processed
        /\ Registry[exhibits[x].accession].exhibits[exhibits[x].seq].preamble
              = Registry[exhibits[y].accession].exhibits[exhibits[y].seq].preamble

\* ==================================================================== C27
\* a further run over the store <<f, d, a, n>> would change nothing
ClusterFixpoint(f, d, a, n) ==
    LET st == cluster_unclustered_facts(f, d, a, n)
    IN  /\ st.n = n
        /\ DOMAIN st.d = DOMAIN d
        /\ \A i \in DOMAIN f : st.f[i].deal_id = f[i].deal_id
        /\ st.d = d
        /\ st.a = a

\* C27: when a clustering run has ended, running it again on the same store
\* creates no deal, changes no fact's deal_id, changes no deal attribute and
\* adds no alert
C27_Fixpoint ==
    [][ClusterRun => ClusterFixpoint(facts', deals', alerts', nextDealId')]_vars

\* what does hold: a second run changes no fact and no deal as long as the
\* first run met no archived deal
C27_FixpointUnlocked ==
    [][ClusterRun /\ alerts' = alerts
          => ClusterFixpoint(facts', deals', alerts', nextDealId')]_vars

\* a run that created a deal and attached facts has ended
C27_RunDone ==
    /\ deals # <<>>
    /\ \E i \in DOMAIN facts : facts[i].deal_id # 0
    /\ ClusterFixpoint(facts, deals, alerts, nextDealId)

C29_ConfidenceAndFlagSet ==
    [][\A k \in DOMAIN deals' :
          /\ (deals'[k].sponsor_name_normalized # ""
                /\ deals'[k].sponsor_name_normalized \notin SPONSOR_SEED_LIST
                => deals'[k].unresolved_sponsor_entity)
          /\ (k \in DOMAIN deals =>
                /\ deals'[k].sponsor_confidence >= deals[k].sponsor_confidence
                /\ (deals[k].unresolved_sponsor_entity
                      => deals'[k].unresolved_sponsor_entity))]_vars

\* a sponsor of the seed list replaced a sponsor outside of it
C29_SeedReplacesUnknown ==
    \E k \in DOMAIN deals, i, j \in DOMAIN facts :
        /\ facts[i].fact_type = "SPONSOR_MENTION" /\ facts[i].deal_id = k
        /\ facts[j].fact_type = "SPONSOR_MENTION" /\ facts[j].deal_id = k
        /\ facts[i].sponsor \notin SPONSOR_SEED_LIST
        /\ deals[k].sponsor_fact = j
        /\ deals[k].sponsor_name_normalized \in SPONSOR_SEED_LIST

\* the banks resolve_and_link created for a raw name (the seeded ones were not)
AutoCreated(name) ==
    {k \in 1..Len(banks) : k > Len(SeedBanks) /\ banks[k].name = name}

\* C30: once resolve_and_link(name, auto_create=True) created a bank for a
\* name, every later resolve or resolve_and_link of that name on the same
\* resolver returns that bank's id and adds no bank (stated for the names
\* that are not empty, which resolve looks up)
C30_Memoized ==
    [][\A n \in RawNames \ {""} :
          /\ AutoCreated(n) # {}
          /\ Resolve(n) \/ \E a \in BOOLEAN : ResolveAndLink(n, a)
          => /\ link_returned'.raised = ""
             /\ link_returned'.bank_id \in AutoCreated(n)
             /\ banks' = banks]_vars

\* what the resolver does guarantee: a name that resolved to a bank keeps
\* resolving to that bank, and no call on it adds a bank
C30_MatchMemoized ==
    [][\A n \in RawNames :
          /\ n # "" /\ _normalize(n) \in DOMAIN bank_cache
          /\ bank_cache[_normalize(n)] # 0
          /\ Resolve(n) \/ \E a \in BOOLEAN : ResolveAndLink(n, a)
          => /\ link_returned'.bank_id = bank_cache[_normalize(n)]
             /\ banks' = banks]_vars

\* a bank was created for a name and the name was asked for again
C30_AskedAgain ==
    /\ link_returned.name # ""
    /\ AutoCreated(link_returned.name) # {}
    /\ link_returned.bank_id \notin AutoCreated(link_returned.name)

====
